---- MODULE Spec2Model ----
(***************************************************************************)
(* Model of the hostd storage host: the RHP v2 session handler             *)
(* (rpcLock, rpcUnlock, rpcSectorRoots, rpcWrite, rpcRead), the contract   *)
(* manager it drives and the sector store behind it; and the single-address *)
(* wallet (FundTransaction, Balance, transaction-pool and consensus         *)
(* updates) with rpcFormContract, which funds, broadcasts and registers a    *)
(* contract formation; and a storage volume (volume.go) with the calls that  *)
(* read, write, sync, resize and close its backing file.                    *)
(***************************************************************************)
EXTENDS Integers, Sequences, FiniteSets, TLC

VARIABLES
    height,      \* sh.cm.Tip().Index.Height
    contracts,   \* contract manager: id -> stored signed revision and sector roots
    lease,       \* contract manager: id -> session holding the lease, or NoSession
    staged,      \* contract manager: id -> a ContractUpdater is outstanding
    store,       \* sector store: root -> [refs, data], for the roots it indexes
    unsynced,    \* sector store: roots written since the last successful Sync
    sess,        \* per session: the session struct and the position of its handler
    last,        \* what the step just taken wrote or asked for, for the steps
                 \* of rpcLock, rpcSettings, rpcSectorRoots and rpcRead's loop
    wallet,      \* SingleAddressWallet: its store's utxos, locked, tpool, txnsets
    funds,       \* per rpcFormContract handler: what FundTransaction gave it
    form,        \* per rpcFormContract handler: its session and how far it got
    volume,      \* the volume struct, its backing file and a Resize in progress
    calls        \* the ReadSector and the WriteSector call in progress

hostVars == <<height, contracts, lease, staged, store, unsynced, sess, last>>
walletVars == <<wallet, funds>>
volumeVars == <<volume, calls>>
vars == <<hostVars, walletVars, form, volumeVars>>

----------------------------------------------------------------------------
(* Bounds of the model *)

MaxHeight == 1
MaxRevNum == 3
MaxSectors == 2
MaxActions == 2
MaxSections == 2

Sessions == {"s1", "s2"}
ContractIDs == {"c1"}
SectorData == {"d1", "d2"}

NoSession == "nosession"
NoContract == "nocontract"     \* types.FileContractID{}
ZeroHash == "zerohash"

----------------------------------------------------------------------------
(* Program constants *)

SectorSize == 4194304
LeafSize == 64
LeavesPerSector == 65536
HashSize == 32

\* the host's current settings, as returned by sh.Settings()
Settings ==
    [ StoragePrice |-> 1, UploadBandwidthPrice |-> 1, DownloadBandwidthPrice |-> 1,
      SectorAccessPrice |-> 1, Collateral |-> 1, ContractPrice |-> 1 ]

----------------------------------------------------------------------------
(* Hashing and signatures *)

\* merkle.SectorRoot: a collision-free hash of the sector's bytes
SectorRoot(data) == ToString(<<"root", data>>)

\* the sector obtained by copying data into sector at offset
Patch(sector, offset, data) == ToString(<<"patch", sector, offset, data>>)

RECURSIVE NextPow2From(_, _)
NextPow2From(p, n) == IF p >= n THEN p ELSE NextPow2From(2 * p, n)

RECURSIVE TreeRoot(_, _, _)
\* root of the complete subtree covering leaves [lo, lo + width) of roots,
\* leaves beyond the list being the zero hash
TreeRoot(roots, lo, width) ==
    IF width = 1
    THEN IF lo + 1 <= Len(roots) THEN roots[lo + 1] ELSE ZeroHash
    ELSE ToString(<<"node", TreeRoot(roots, lo, width \div 2),
                            TreeRoot(roots, lo + width \div 2, width \div 2)>>)

\* the cached Merkle root of a sector-root list (the zero hash for an empty list)
MerkleRoot(roots) ==
    IF Len(roots) = 0 THEN ZeroHash
    ELSE TreeRoot(roots, 0, NextPow2From(1, Len(roots)))

\* hashRevision: the canonical hash covers every field of the revision
hashRevision(rev) == [hash |-> "revision", of |-> rev]

\* the hash a renter signs to answer the session's challenge
hashChallenge(challenge) == [hash |-> "challenge", of |-> challenge]

Sign(key, hash) == [by |-> key, over |-> hash]
Verify(key, hash, sig) == sig = Sign(key, hash)

HostKey == [key |-> "host", of |-> NoContract]
RenterKey(c) == [key |-> "renter", of |-> c]
NoKey == [key |-> "none", of |-> NoContract]

----------------------------------------------------------------------------
(* Revisions *)

Sum2(v) == v[1] + v[2]
Sum3(v) == v[1] + v[2] + v[3]

\* contracts.SignedRevision{}: the zero value, no contract
NoRevision ==
    [ parentID |-> NoContract, revnum |-> 0, filesize |-> 0, merkle |-> ZeroHash,
      windowStart |-> 0, valid |-> <<0, 0>>, missed |-> <<0, 0, 0>> ]

\* a signature that verifies for no key and no revision
BadSig == Sign(NoKey, hashRevision(NoRevision))

\* a signature that answers no challenge
BadChallengeSig == Sign(NoKey, hashChallenge(0))

NoSigned == [rev |-> NoRevision, renterSig |-> BadSig, hostSig |-> BadSig]

\* the revision a formed contract starts from: revision 1, no sectors
InitialRevision(c) ==
    [ parentID |-> c, revnum |-> 1, filesize |-> 0, merkle |-> ZeroHash,
      windowStart |-> 1, valid |-> <<60000000, 40000000>>,
      missed |-> <<60000000, 40000000, 0>> ]

FormationPayout(c) == Sum2(InitialRevision(c).valid)

\* revise: the current revision with the renter's revision number and values
revise(current, revnum, validValues, missedValues) ==
    IF Len(validValues) # Len(current.valid) \/ Len(missedValues) # Len(current.missed)
    THEN [ok |-> FALSE, rev |-> NoRevision]
    ELSE [ok |-> TRUE,
          rev |-> [current EXCEPT !.revnum = revnum, !.valid = validValues,
                                  !.missed = missedValues]]

\* validateRevision: the payout deltas cover the payment and conserve the payout
validateRevision(current, rev, payment, collateral) ==
    /\ Sum2(rev.valid) = Sum2(current.valid)
    /\ Sum3(rev.missed) = Sum2(current.valid)
    /\ current.valid[1] >= payment
    /\ current.missed[1] >= payment
    /\ current.missed[2] >= collateral
    /\ current.valid[1] - rev.valid[1] >= payment
    /\ current.missed[1] - rev.missed[1] >= payment
    /\ rev.missed[3] >= current.missed[3]
    /\ rev.missed[3] - current.missed[3] <= collateral

\* a handler going on although validateRevision returned an error
RevisionNeverInvalid(current, rev, payment, collateral) == FALSE

\* the handlers return when validateRevision returns an error
RevisionInvalid(current, rev, payment, collateral) ==
    ~validateRevision(current, rev, payment, collateral)

\* session.ContractRevisable: current height < window start
ContractRevisable(s, h) == h < s.contract.rev.windowStart

----------------------------------------------------------------------------
(* Sector store *)

\* WriteSector: a root already indexed gains a reference, a new one is stored
StoreWriteSector(st, root, data) ==
    IF root \in DOMAIN st
    THEN [st EXCEPT ![root].refs = @ + 1]
    ELSE [r \in DOMAIN st \cup {root} |->
            IF r = root THEN [refs |-> 1, data |-> data] ELSE st[r]]

\* the release handle of a write: drops one reference, frees the slot at zero
StoreRelease(st, root) ==
    IF root \notin DOMAIN st THEN st
    ELSE IF st[root].refs > 1 THEN [st EXCEPT ![root].refs = @ - 1]
    ELSE [r \in DOMAIN st \ {root} |-> st[r]]

\* a contract's reference to a root it commits to: one more reference of a root
\* the store indexes (a root without a location has nothing to count)
StoreAddRef(st, root) ==
    IF root \in DOMAIN st THEN [st EXCEPT ![root].refs = @ + 1] ELSE st

RECURSIVE StoreAddRefs(_, _)
StoreAddRefs(st, rootSeq) ==
    IF rootSeq = <<>> THEN st
    ELSE StoreAddRefs(StoreAddRef(st, Head(rootSeq)), Tail(rootSeq))

RECURSIVE StoreReleaseAll(_, _)
StoreReleaseAll(st, rootSeq) ==
    IF rootSeq = <<>> THEN st
    ELSE StoreReleaseAll(StoreRelease(st, Head(rootSeq)), Tail(rootSeq))

----------------------------------------------------------------------------
(* Contract manager *)

\* ContractManager.Lock: the lease is free, or the wait times out
LockAcquirable(c) == c \in ContractIDs /\ lease[c] = NoSession

\* ContractManager.Unlock: releases the lease; nothing to do for an id that is
\* not leased
Unlock(ls, id) == IF id \in DOMAIN ls THEN [ls EXCEPT ![id] = NoSession] ELSE ls

\* monotonic transfers: renter -> host in the valid outputs, host -> void in
\* the missed ones
MonotonicPayouts(current, rev) ==
    /\ rev.valid[1] <= current.valid[1]
    /\ rev.valid[2] >= current.valid[2]
    /\ rev.missed[1] <= current.missed[1]
    /\ rev.missed[3] >= current.missed[3]

\* Commit without the revision number rule
RevisionNumberIgnored(current, rev) == TRUE

\* the revision number rule
RevisionNumberIncreases(current, rev) == rev.revnum > current.revnum

\* ContractUpdater.Commit accepts the signed revision
CommitAccepts(c, signed) ==
    /\ Verify(RenterKey(c), hashRevision(signed.rev), signed.renterSig)
    /\ Verify(HostKey, hashRevision(signed.rev), signed.hostSig)
    /\ MonotonicPayouts(contracts[c].signed.rev, signed.rev)
    /\ RevisionNumberIncreases(contracts[c].signed.rev, signed.rev)

----------------------------------------------------------------------------
(* Sessions *)

NoRpc ==
    [ rev |-> NoRevision, cost |-> 0, roots |-> <<>>, releases |-> <<>>,
      added |-> <<>>, trimmed |-> <<>>, renterSig |-> BadSig, hostSig |-> BadSig,
      sections |-> <<>>, proof |-> FALSE, idx |-> 0, sigs |-> 0, synced |-> FALSE,
      offset |-> 0 ]

NewSession ==
    [ alive |-> TRUE, contract |-> NoSigned, challenge |-> 0, spent |-> 0,
      charged |-> 0, pc |-> "idle", rpc |-> NoRpc, watcher |-> "none", resp |-> "none" ]

\* what the session's handler wrote last is observed through resp; a new step
\* starts from no response
Fresh(s) == [s EXCEPT !.resp = "none"]

Idle(s) == sess[s].alive /\ sess[s].pc = "idle"

\* session.Spend
Spend(s, amount) == [s EXCEPT !.spent = @ + amount]

\* session.VerifyChallenge
VerifyChallenge(s, sig, key) == Verify(key, hashChallenge(s.challenge), sig)

\* the handler returned a non-nil error: the RPC loop ends the session
Failed(s) == [s EXCEPT !.alive = FALSE, !.pc = "idle", !.rpc = NoRpc]

\* return s.WriteError(err): the error goes to the renter and the loop goes on,
\* unless writing it fails
WriteError(s, err, netOk) ==
    IF netOk THEN [s EXCEPT !.resp = err, !.pc = "idle", !.rpc = NoRpc]
    ELSE Failed(s)

\* s.WriteError(err); return err
WriteErrorAndFail(s, err, netOk) ==
    IF netOk THEN [Failed(s) EXCEPT !.resp = err] ELSE Failed(s)

Held(s) == sess[s].contract.rev.parentID

\* what the last step did, if it was a step of rpcLock: its session, what the
\* handler wrote to the renter, and whether it asked the contract manager for a
\* lease, with which wait (in nanoseconds), and whether the request carried a
\* challenge signature that an earlier Lock of the session had accepted
LockStep(s, resp, managerLock, duration, replayed) ==
    [rpc |-> "Lock", s |-> s, resp |-> resp, managerLock |-> managerLock, js |-> {},
     duration |-> duration, replayed |-> replayed,
     offset |-> 0, count |-> 0, cost |-> 0, roots |-> <<>>, proof |-> <<>>]

\* what the last step did, if it was a pass of rpcRead's response loop: its
\* session and what the handler wrote to the renter
ReadStep(s, resp) ==
    [rpc |-> "Read", s |-> s, resp |-> resp, managerLock |-> FALSE, js |-> {},
     duration |-> 0, replayed |-> FALSE,
     offset |-> 0, count |-> 0, cost |-> 0, roots |-> <<>>, proof |-> <<>>]

\* what the last step did, if it was rpcSettings: its session, what the handler
\* wrote to the renter and, in js, the members of the JSON object it sent
SettingsStep(s, resp, js) ==
    [rpc |-> "Settings", s |-> s, resp |-> resp, managerLock |-> FALSE, js |-> js,
     duration |-> 0, replayed |-> FALSE,
     offset |-> 0, count |-> 0, cost |-> 0, roots |-> <<>>, proof |-> <<>>]

\* what the last step did, if it was a step of rpcSectorRoots past the
\* validation of the revision: the RootOffset and NumRoots of the request, the
\* cost the handler computed for it, and the roots and the range proof of the
\* response
SectorRootsStep(s, resp, req, roots, proof) ==
    [rpc |-> "SectorRoots", s |-> s, resp |-> resp, managerLock |-> FALSE, js |-> {},
     duration |-> 0, replayed |-> FALSE,
     offset |-> req.offset, count |-> req.count, cost |-> req.cost,
     roots |-> roots, proof |-> proof]

NoStep ==
    [rpc |-> "none", s |-> NoSession, resp |-> "none", managerLock |-> FALSE, js |-> {},
     duration |-> 0, replayed |-> FALSE,
     offset |-> 0, count |-> 0, cost |-> 0, roots |-> <<>>, proof |-> <<>>]

\* one step of session s's handler ends in session state new
Finish(s, new) ==
    /\ sess' = [sess EXCEPT ![s] = Fresh(new)]
    /\ last' = NoStep

\* a step of rpcLock ends in session state new
FinishLock(s, new, step) ==
    /\ sess' = [sess EXCEPT ![s] = Fresh(new)]
    /\ last' = [step EXCEPT !.resp = new.resp]

\* a step of rpcSectorRoots past the validation of the revision ends in session
\* state new
FinishSectorRoots(s, new, req, roots, proof) ==
    /\ sess' = [sess EXCEPT ![s] = Fresh(new)]
    /\ last' = SectorRootsStep(s, new.resp, req, roots, proof)

\* a pass of rpcRead's response loop ends in session state new
FinishRead(s, new) ==
    /\ sess' = [sess EXCEPT ![s] = Fresh(new)]
    /\ last' = ReadStep(s, new.resp)

----------------------------------------------------------------------------
(* Wallet: the outputs of the wallet's address, the transaction sets of the
   transaction pool, and the rpcFormContract handlers that fund a formation *)

MaxOutputs == 2
MaxAmount == 3

OutputIDs == 1..MaxOutputs
TxnSetIDs == {"t1", "t2"}
Funders == {"f1", "f2"}

\* SiacoinElement: an output's value goes with its ID
SiacoinElement(id) == [id |-> id, value |-> ((2 * id) % 3) + 1]

\* the wallet address, and the address of the formation's other outputs
WalletAddress == "host"

\* a wallet whose store holds no output yet
NewWallet ==
    [ utxos |-> <<>>, locked |-> {}, tpool |-> {},
      txnsets |-> [t \in TxnSetIDs |-> {}] ]

\* the formation transaction as the renter sent it
RenterTxn == [inputs |-> <<0>>, outputs |-> <<>>]

\* a handler that has not called FundTransaction. Of the outputs a call
\* selected, held are those no consensus change has removed since.
NoFund ==
    [ status |-> "none", txn |-> RenterTxn, toSign |-> <<>>,
      release |-> FALSE, err |-> "none", held |-> {} ]

\* the session of a rpcFormContract handler and what the handler has done:
\* verified the renter's signature, had the formation set accepted by the
\* transaction pool, added the contract to the contract manager
NoForm ==
    [ alive |-> TRUE, pc |-> "idle", rpc |-> NoRpc, spent |-> 0,
      verified |-> FALSE, broadcast |-> FALSE, contract |-> FALSE, resp |-> "none" ]

----------------------------------------------------------------------------
(* Volume *)

MaxVolumeSectors == 2
MaxCalls == 2
MaxFailures == 102

\* the length stats.Errors is cut to
MaxErrors == 100

\* no Resize holds the mutex
NoResize == [pc |-> "none", old |-> 0, new |-> 0, i |-> 0, ret |-> "none"]

\* a volume after construction: no backing file is open. size is the length of
\* the file on disk in sectors, clock the number of errors appended so far,
\* crashed whether a call has panicked.
NewVolume ==
    [ data |-> "nil", size |-> 0, busy |-> FALSE, resizing |-> NoResize,
      stats |-> [ FailedReads |-> 0, FailedWrites |-> 0, SuccessfulReads |-> 0,
                  SuccessfulWrites |-> 0, Status |-> "", Errors |-> <<>> ],
      clock |-> 0, crashed |-> FALSE ]

\* a ReadSector or WriteSector call: where it is, the index it was called with,
\* whether Close ran since it tested v.data, and what it returned last
NoCall == [pc |-> "idle", index |-> 0, stale |-> FALSE, ret |-> "none"]

----------------------------------------------------------------------------
Init ==
    /\ height = 0
    /\ contracts = [c \in ContractIDs |->
          [ signed |-> [ rev |-> InitialRevision(c),
                         renterSig |-> Sign(RenterKey(c), hashRevision(InitialRevision(c))),
                         hostSig |-> Sign(HostKey, hashRevision(InitialRevision(c))) ],
            roots |-> <<>> ]]
    /\ lease = [c \in ContractIDs |-> NoSession]
    /\ staged = [c \in ContractIDs |-> FALSE]
    /\ store = [r \in {} |-> [refs |-> 0, data |-> ""]]
    /\ unsynced = {}
    /\ sess = [s \in Sessions |-> NewSession]
    /\ last = NoStep
    /\ wallet = NewWallet
    /\ funds = [f \in Funders |-> NoFund]
    /\ form = [f \in Funders |-> NoForm]
    /\ volume = NewVolume
    /\ calls = [op \in {"read", "write"} |-> NoCall]

----------------------------------------------------------------------------
(* Transport outcomes of one handler step: every message arrives, reading the
   renter's message fails or times out, or writing the host's message fails *)
Net == {"ok", "readFail", "writeFail"}

LockIDs == ContractIDs \cup {"unknown"}

\* the signatures a renter may send to answer a Lock challenge
ChallengeSigs(s, id) ==
    {Sign(RenterKey(id), hashChallenge(sess[s].challenge)), BadChallengeSig}

\* the challenge signatures that earlier Locks of the session accepted: the
\* challenge is replaced only after its signature was verified
AcceptedSigs(s, id) ==
    {Sign(RenterKey(id), hashChallenge(c)) : c \in 0..(sess[s].challenge - 1)}

\* req.Timeout, a uint64 count of milliseconds: a value near 2^64 is written as
\* the negative number it is congruent to
Timeouts == {0, 1000, -1}

\* time.Millisecond, in nanoseconds
Millisecond == 1000000

\* time.Duration(req.Timeout)*time.Millisecond: the conversion to int64 keeps
\* the 64 bits, so 2^64 - k becomes -k
Duration(timeout) == timeout * Millisecond

\* rpcLock without its first check
NeverLocked(s) == FALSE

\* rpcLock going on although the manager refused a lease that is held
LockFailedOnlyIfUnknown(id) == id \notin ContractIDs

\* rpcLock's first check: the session already holds a contract
AlreadyLocked(s) == s.contract.rev.parentID # NoContract

\* rpcLock asks the contract manager for the lease and returns when that fails
LockFailed(id) == ~LockAcquirable(id)

\* rpcLock
rpcLock(s, id, sig, timeout, net) ==
    LET replayed == sig \in AcceptedSigs(s, id)
        unread == LockStep(s, "none", FALSE, 0, FALSE)
        before == LockStep(s, "none", FALSE, 0, replayed)
        asked == LockStep(s, "none", TRUE, Duration(timeout), replayed)
    IN
    /\ Idle(s)
    /\ UNCHANGED <<walletVars, form, volumeVars, height, contracts, staged, store, unsynced>>
    /\ IF net = "readFail"
       THEN /\ FinishLock(s, Failed(sess[s]), unread)
            /\ UNCHANGED lease
       ELSE IF AlreadyLocked(sess[s])
       THEN /\ FinishLock(s, WriteError(sess[s], "ContractAlreadyLocked", net = "ok"), before)
            /\ UNCHANGED lease
       ELSE IF LockFailed(id)
       THEN /\ FinishLock(s, WriteError(sess[s], "failed to lock contract", net = "ok"), asked)
            /\ UNCHANGED lease
       ELSE LET acquired == [lease EXCEPT ![id] = s]
                contract == contracts[id].signed
            IN  IF ~VerifyChallenge(sess[s], sig, RenterKey(contract.rev.parentID))
                THEN /\ lease' = Unlock(acquired, contract.rev.parentID)
                     /\ FinishLock(s,
                               WriteError(sess[s], "InvalidRenterSignature", net = "ok"), asked)
                ELSE LET locked == [sess[s] EXCEPT !.contract = contract,
                                                   !.challenge = @ + 1]
                     IN  IF net = "ok"
                         THEN /\ lease' = acquired
                              /\ FinishLock(s, [locked EXCEPT !.resp = "Acquired"], asked)
                         ELSE /\ lease' = Unlock(acquired, contract.rev.parentID)
                              /\ FinishLock(s, Failed(locked), asked)

\* rpcUnlock
rpcUnlock(s) ==
    /\ Idle(s)
    /\ UNCHANGED <<walletVars, form, volumeVars, height, contracts, staged, store, unsynced>>
    /\ IF sess[s].contract.rev.parentID = NoContract
       THEN /\ Finish(s, sess[s])
            /\ UNCHANGED lease
       ELSE LET cleared == [sess[s] EXCEPT !.contract = NoSigned]
            IN  /\ Finish(s, cleared)
                /\ lease' = Unlock(lease, cleared.contract.rev.parentID)

----------------------------------------------------------------------------
(* Range proofs *)

RECURSIVE OnesCount(_)
OnesCount(x) == IF x = 0 THEN 0 ELSE (x % 2) + OnesCount(x \div 2)

RECURSIVE BitLen(_)
BitLen(x) == IF x = 0 THEN 0 ELSE 1 + BitLen(x \div 2)

RECURSIVE BitXor(_, _)
BitXor(x, y) ==
    IF x = 0 /\ y = 0 THEN 0
    ELSE (((x % 2) + (y % 2)) % 2) + 2 * BitXor(x \div 2, y \div 2)

\* the zero bits of x among its len lowest bits
RECURSIVE ZeroBits(_, _)
ZeroBits(x, len) == IF len = 0 THEN 0 ELSE (1 - (x % 2)) + ZeroBits(x \div 2, len - 1)

\* merkle.RangeProofSize: the hashes in a proof of leaves [start, end) of an
\* n-leaf tree; for end = 0 the uint64 end - 1 is all ones and leaves no right
\* hashes
RangeProofSize(n, start, end) ==
    IF end = 0 THEN OnesCount(start)
    ELSE OnesCount(start) + ZeroBits(end - 1, BitLen(BitXor(end - 1, n - 1)))

RECURSIVE RangeProof(_, _, _, _, _)
\* the range proof of leaves [start, end) within the subtree covering
\* [lo, lo + width) of roots: the roots of the largest subtrees that hold no
\* leaf of the range, from left to right
RangeProof(roots, lo, width, start, end) ==
    IF lo + width <= start \/ end <= lo THEN <<TreeRoot(roots, lo, width)>>
    ELSE IF width = 1 THEN <<>>
    ELSE RangeProof(roots, lo, width \div 2, start, end)
         \o RangeProof(roots, lo + width \div 2, width \div 2, start, end)

\* merkle.BuildSectorRangeProof: the proof of [start, end) over the tree of
\* sectorRoots; a range that is not within the list panics
BuildSectorRangeProof(sectorRoots, start, end) ==
    IF Len(sectorRoots) = 0 THEN [ok |-> TRUE, hashes |-> <<>>]
    ELSE IF start > end \/ end > Len(sectorRoots) THEN [ok |-> FALSE, hashes |-> <<>>]
    ELSE [ok |-> TRUE,
          hashes |-> RangeProof(sectorRoots, 0, NextPow2From(1, Len(sectorRoots)), start, end)]

----------------------------------------------------------------------------
(* The revision a renter proposes *)

PayKinds == {"exact", "over", "under", "mint", "short"}

\* the values a renter sends to pay cost and have the host risk collateral:
\* exactly, one more, one less, crediting the host one more than it pays, or
\* with an output missing
ProposedValues(current, cost, collateral, kind) ==
    LET t == CASE kind = "over" -> cost + 1
               [] kind = "under" -> cost - 1
               [] OTHER -> cost
        extra == IF kind = "mint" THEN 1 ELSE 0
        valid == <<current.valid[1] - t, current.valid[2] + t + extra>>
        missed == <<current.missed[1] - t, current.missed[2] + t - collateral,
                    current.missed[3] + collateral>>
    IN  [ valid |-> IF kind = "short" THEN <<valid[1]>> ELSE valid, missed |-> missed ]

\* a Currency is never negative
Sendable(values) ==
    /\ \A i \in 1..Len(values.valid) : values.valid[i] >= 0
    /\ \A i \in 1..Len(values.missed) : values.missed[i] >= 0

\* What is wrong with a request: nothing, the transport (reading it fails, the
\* host's next write fails), the renter's signature, the revision number (not
\* raised, raised by two) or the values
Faults ==
    {"none", "readFail", "writeFail", "badSig", "staleRevNum", "skipRevNum",
     "over", "under", "mint", "short"}

NetOf(fault) == IF fault \in Net THEN fault ELSE "ok"
KindOf(fault) == IF fault \in PayKinds THEN fault ELSE "exact"
GoodSigOf(fault) == fault # "badSig"
RevNumOf(fault, current) ==
    current.revnum + (CASE fault = "staleRevNum" -> 0 [] fault = "skipRevNum" -> 2 [] OTHER -> 1)

\* the renter's signature of a revision, or a signature of something else
RenterSig(good, rev) ==
    IF good THEN Sign(RenterKey(rev.parentID), hashRevision(rev)) ELSE BadSig

----------------------------------------------------------------------------
(* SectorRoots *)

\* offset and count are uint64, a value near 2^64 being written as the negative
\* number it is congruent to: the count roots from offset on lie within a list
\* of n roots
InRange(offset, count, n) == offset >= 0 /\ count >= 0 /\ offset + count <= n

SectorRootsFromStart(id, count, offset) ==
    IF id \in ContractIDs /\ InRange(offset, count, Len(contracts[id].roots))
    THEN [ok |-> TRUE, roots |-> SubSeq(contracts[id].roots, 1, count)]
    ELSE [ok |-> FALSE, roots |-> <<>>]

\* ContractManager.SectorRoots
ManagerSectorRoots(id, count, offset) ==
    IF id \in ContractIDs /\ InRange(offset, count, Len(contracts[id].roots))
    THEN [ok |-> TRUE, roots |-> SubSeq(contracts[id].roots, offset + 1, offset + count)]
    ELSE [ok |-> FALSE, roots |-> <<>>]

\* rpcSectorRoots, up to the roots being fetched
rpcSectorRootsBegin(s, offset, count, revnum, kind, goodSig, net) ==
    LET cur == sess[s].contract.rev
        proofSize == RangeProofSize(LeavesPerSector, offset, offset + count)
        cost == Settings.DownloadBandwidthPrice * ((count + proofSize) * HashSize)
        values == ProposedValues(cur, cost, 0, kind)
        revised == revise(cur, revnum, values.valid, values.missed)
        revision == revised.rev
        sig == RenterSig(goodSig, revision)
        got == ManagerSectorRoots(cur.parentID, count, offset)
        req == [offset |-> offset, count |-> count, cost |-> cost]
    IN
    /\ Idle(s)
    /\ Sendable(values)
    /\ sess[s].contract.rev.revnum < MaxRevNum /\ revnum <= MaxRevNum
    /\ UNCHANGED <<walletVars, form, volumeVars, height, contracts, lease, staged, store, unsynced>>
    /\ IF ~ContractRevisable(sess[s], height)
       THEN Finish(s,
                   WriteError(sess[s], "contract not revisable", net = "ok"))
       ELSE IF net = "readFail"
       THEN Finish(s, Failed(sess[s]))
       ELSE IF ~revised.ok
       THEN Finish(s,
                   WriteError(sess[s], "failed to revise contract", net = "ok"))
       ELSE IF ~Verify(RenterKey(cur.parentID), hashRevision(revision), sig)
       THEN Finish(s,
                   WriteError(sess[s], "InvalidRenterSignature", net = "ok"))
       ELSE IF RevisionInvalid(cur, revision, cost, 0)
       THEN Finish(s,
                   WriteError(sess[s], "failed to validate revision", net = "ok"))
       ELSE IF ~got.ok
       THEN FinishSectorRoots(s,
                   WriteErrorAndFail(sess[s], "HostInternalError", net = "ok"),
                   req, <<>>, <<>>)
       ELSE FinishSectorRoots(s,
                   [sess[s] EXCEPT !.pc = "srCommit",
                                   !.rpc = [NoRpc EXCEPT !.rev = revision, !.cost = cost,
                                               !.renterSig = sig,
                                               !.hostSig = Sign(HostKey, hashRevision(revision)),
                                               !.roots = got.roots,
                                               !.offset = offset]],
                   req, <<>>, <<>>)

\* ContractUpdater.Commit: the contract references the roots it gained and
\* releases the ones TrimSectors dropped
CommitSectors(st, added, trimmed) == StoreReleaseAll(StoreAddRefs(st, added), trimmed)

\* ContractUpdater.Commit: the record takes the signed revision and the staged
\* roots
Committed(id, signed, roots) ==
    [contracts EXCEPT ![id] = [signed |-> signed, roots |-> roots]]

\* the contracts after ContractUpdater.Commit, which changes nothing when it
\* returns an error
AfterCommit(id, signed, roots) ==
    IF CommitAccepts(id, signed) THEN Committed(id, signed, roots) ELSE contracts

\* the costs of the revisions the session had committed, after this Commit
Charge(s, id, signed, cost) ==
    IF CommitAccepts(id, signed) THEN [s EXCEPT !.charged = @ + cost] ELSE s

\* a handler going on although Commit returned an error
CommitErrorIgnored(id, signed) == FALSE

\* the handlers return when ContractUpdater.Commit returns an error
CommitFailed(id, signed) == ~CommitAccepts(id, signed)

\* rpcSectorRoots, from the commit of the revision
rpcSectorRootsCommit(s, net) ==
    LET r == sess[s].rpc
        id == r.rev.parentID
        signedRevision == [rev |-> r.rev, renterSig |-> r.renterSig, hostSig |-> r.hostSig]
    IN
    /\ sess[s].alive /\ sess[s].pc = "srCommit"
    /\ net # "readFail"
    /\ UNCHANGED <<walletVars, form, volumeVars, height, lease, store, unsynced>>
    /\ IF staged[id]
       THEN /\ Finish(s,
                      WriteErrorAndFail(sess[s], "HostInternalError", net = "ok"))
            /\ UNCHANGED <<contracts, staged>>
       ELSE IF CommitFailed(id, signedRevision)
       THEN /\ Finish(s,
                      WriteErrorAndFail(sess[s], "HostInternalError", net = "ok"))
            /\ contracts' = AfterCommit(id, signedRevision, contracts[id].roots)
            /\ UNCHANGED staged
       ELSE LET done == [Charge(sess[s], id, signedRevision, r.cost)
                           EXCEPT !.contract = signedRevision]
                \* the manager returned NumRoots roots
                proof == BuildSectorRangeProof(r.roots, r.offset, r.offset + Len(r.roots))
                req == [offset |-> r.offset, count |-> Len(r.roots), cost |-> r.cost]
            IN  /\ contracts' = AfterCommit(id, signedRevision, contracts[id].roots)
                /\ UNCHANGED staged
                /\ IF ~proof.ok
                   THEN FinishSectorRoots(s, [Failed(done) EXCEPT !.resp = "panic"],
                                          req, r.roots, <<>>)
                   ELSE IF net = "writeFail"
                   THEN Finish(s, Failed(done))
                   ELSE FinishSectorRoots(s,
                               [Spend(done, r.cost) EXCEPT !.pc = "idle", !.rpc = NoRpc,
                                                          !.resp = "SectorRoots"],
                               req, r.roots, proof.hashes)

----------------------------------------------------------------------------
(* Write *)

ActAppend(data) == [type |-> "Append", a |-> 0, b |-> 0, data |-> data]
ActTrim(n) == [type |-> "Trim", a |-> n, b |-> 0, data |-> ""]
ActSwap(i, j) == [type |-> "Swap", a |-> i, b |-> j, data |-> ""]
ActUpdate(i, offset, data) == [type |-> "Update", a |-> i, b |-> offset, data |-> data]

\* the bytes a renter sends with an Update, and their number
UpdateData == {"u1"}
DataLen(data) == IF data \in UpdateData THEN LeafSize ELSE SectorSize

\* the cost of a Swap: the hashes of its proof
SwapCost == Settings.DownloadBandwidthPrice * (2 * HashSize)

RECURSIVE validateWriteActions(_, _)
\* validateWriteActions: the cost of the actions and the collateral they risk
validateWriteActions(actions, remainingDuration) ==
    IF actions = <<>> THEN [cost |-> 0, collateral |-> 0]
    ELSE LET rest == validateWriteActions(Tail(actions), remainingDuration)
             type == Head(actions).type
             cost == CASE type = "Append" ->
                            Settings.StoragePrice * SectorSize * remainingDuration
                            + Settings.UploadBandwidthPrice * SectorSize
                       [] type = "Update" -> Settings.UploadBandwidthPrice * SectorSize
                       [] type = "Swap" -> SwapCost
                       [] OTHER -> 0
             collateral == IF type = "Append"
                           THEN Settings.Collateral * SectorSize * remainingDuration
                           ELSE 0
         IN  [cost |-> rest.cost + cost, collateral |-> rest.collateral + collateral]

\* the staging ContractUpdater and what the handler holds while it applies the
\* actions: the staged roots, the roots added and the roots TrimSectors
\* dropped, the store, the roots written, the deferred releases, and how the
\* loop ended
Staging(roots, st) ==
    [ roots |-> roots, added |-> <<>>, trimmed |-> <<>>, st |-> st, written |-> {},
      releases |-> <<>>, err |-> "none" ]

\* ContractUpdater.SwapSectors
SwapSectors(roots, i, j) ==
    [k \in 1..Len(roots) |->
        IF k = i + 1 THEN roots[j + 1] ELSE IF k = j + 1 THEN roots[i + 1] ELSE roots[k]]

\* one action of the loop over req.Actions; storeOk: the store's write succeeds
ApplyAction(u, action, storeOk) ==
    CASE action.type = "Append" ->
            LET root == SectorRoot(action.data)
            IN  IF ~storeOk THEN [u EXCEPT !.err = "append action: failed to write sector"]
                ELSE [u EXCEPT !.st = StoreWriteSector(u.st, root, action.data),
                               !.written = @ \cup {root},
                               !.releases = Append(@, root),
                               !.roots = Append(@, root),
                               !.added = Append(@, root)]
      [] action.type = "Trim" ->
            IF action.a > Len(u.roots)
            THEN [u EXCEPT !.err = "trim action: failed to trim sectors"]
            ELSE [u EXCEPT !.roots = SubSeq(@, 1, Len(@) - action.a),
                           !.trimmed = @ \o SubSeq(u.roots, Len(u.roots) - action.a + 1,
                                                   Len(u.roots))]
      [] action.type = "Swap" ->
            IF action.a >= Len(u.roots) \/ action.b >= Len(u.roots)
            THEN [u EXCEPT !.err = "swap action: failed to swap sectors"]
            ELSE [u EXCEPT !.roots = SwapSectors(@, action.a, action.b)]
      [] OTHER ->
            IF action.a >= Len(u.roots)
            THEN [u EXCEPT !.err = "update action: failed to get sector root"]
            ELSE LET root == u.roots[action.a + 1]
                 IN  IF root \notin DOMAIN u.st
                     THEN [u EXCEPT !.err = "HostInternalError"]
                     ELSE IF action.b > SectorSize
                     THEN [u EXCEPT !.err = "update action: invalid offset"]
                     ELSE IF action.b + DataLen(action.data) > SectorSize
                     THEN [u EXCEPT !.err = "update action: offset + data exceeds sector size"]
                     ELSE LET sector == Patch(u.st[root].data, action.b, action.data)
                              newRoot == SectorRoot(sector)
                          IN  IF ~storeOk
                              THEN [u EXCEPT !.roots[action.a + 1] = newRoot,
                                             !.added = Append(@, newRoot),
                                             !.err = "append action: failed to write sector"]
                              ELSE [u EXCEPT !.roots[action.a + 1] = newRoot,
                                             !.added = Append(@, newRoot),
                                             !.st = StoreWriteSector(u.st, root, action.data),
                                             !.written = @ \cup {root},
                                             !.releases = Append(@, root)]

RECURSIVE ApplyActions(_, _, _, _)
\* the loop over req.Actions, from action k on; the store's write fails in
\* action failAt (0: in none)
ApplyActions(u, actions, k, failAt) ==
    IF k > Len(actions) \/ u.err # "none" THEN u
    ELSE ApplyActions(ApplyAction(u, actions[k], k # failAt), actions, k + 1, failAt)

\* the deferred releases run when the handler returns
Released(st, r) == StoreReleaseAll(st, r.releases)

\* rpcWrite signing the revision with the size and root it had before the actions
StaleSizeAndRoot(rev, roots) == rev

\* the revision takes its size and Merkle root from the staged roots
StagedRevision(rev, roots) ==
    [rev EXCEPT !.merkle = MerkleRoot(roots), !.filesize = Len(roots) * SectorSize]

\* rpcWrite, up to the Merkle proof response
rpcWriteBegin(s, actions, revnum, kind, net, failAt) ==
    LET cur == sess[s].contract.rev
        id == cur.parentID
        remainingDuration == cur.windowStart - height
        priced == validateWriteActions(actions, remainingDuration)
        values == ProposedValues(cur, priced.cost, priced.collateral, kind)
        revised == revise(cur, revnum, values.valid, values.missed)
        u == ApplyActions(Staging(contracts[id].roots, store), actions, 1, failAt)
        revision == StagedRevision(revised.rev, u.roots)
        staging == [NoRpc EXCEPT !.rev = revision, !.cost = priced.cost, !.roots = u.roots,
                                 !.added = u.added, !.trimmed = u.trimmed,
                                 !.releases = u.releases]
    IN
    /\ Idle(s)
    /\ sess[s].contract.rev.revnum < MaxRevNum /\ revnum <= MaxRevNum
    /\ UNCHANGED <<walletVars, form, volumeVars, height, contracts, lease>>
    /\ IF ~ContractRevisable(sess[s], height)
       THEN /\ Finish(s,
                      WriteError(sess[s], "contract not revisable", net = "ok"))
            /\ UNCHANGED <<staged, store, unsynced>>
       ELSE IF net = "readFail"
       THEN /\ Finish(s, Failed(sess[s]))
            /\ UNCHANGED <<staged, store, unsynced>>
       ELSE IF ~Sendable(values) \/ ~revised.ok
       THEN /\ Finish(s,
                      WriteError(sess[s], "failed to revise contract", net = "ok"))
            /\ UNCHANGED <<staged, store, unsynced>>
       ELSE IF RevisionInvalid(cur, revised.rev, priced.cost, priced.collateral)
       THEN /\ Finish(s,
                      WriteError(sess[s], "failed to validate revision", net = "ok"))
            /\ UNCHANGED <<staged, store, unsynced>>
       ELSE IF staged[id]
       THEN /\ Finish(s,
                      WriteErrorAndFail(sess[s], "HostInternalError", net = "ok"))
            /\ UNCHANGED <<staged, store, unsynced>>
       ELSE /\ staged' = [staged EXCEPT ![id] = TRUE]
            /\ unsynced' = unsynced \cup u.written
            /\ IF u.err = "HostInternalError"
               THEN /\ Finish(s,
                              WriteErrorAndFail(sess[s], u.err, net = "ok"))
                    /\ store' = Released(u.st, staging)
               ELSE IF u.err # "none"
               THEN /\ Finish(s, WriteError(sess[s], u.err, net = "ok"))
                    /\ store' = Released(u.st, staging)
               ELSE IF net = "writeFail"
               THEN /\ Finish(s, Failed(sess[s]))
                    /\ store' = Released(u.st, staging)
               ELSE /\ Finish(s,
                              [sess[s] EXCEPT !.pc = "wSign", !.rpc = staging,
                                              !.resp = "MerkleProof"])
                    /\ store' = u.st

\* rpcWrite, the renter's signature of the revision with its new size and root
rpcWriteSign(s, goodSig, net) ==
    LET r == sess[s].rpc
        renterSig == RenterSig(goodSig, r.rev)
    IN
    /\ sess[s].alive /\ sess[s].pc = "wSign"
    /\ net # "writeFail" \/ ~goodSig
    /\ UNCHANGED <<walletVars, form, volumeVars, height, contracts, lease, staged, unsynced>>
    /\ IF net = "readFail"
       THEN /\ Finish(s, Failed(sess[s]))
            /\ store' = Released(store, r)
       ELSE IF ~Verify(RenterKey(sess[s].contract.rev.parentID), hashRevision(r.rev), renterSig)
       THEN /\ Finish(s,
                      WriteError(sess[s], "InvalidRenterSignature", net = "ok"))
            /\ store' = Released(store, r)
       ELSE /\ Finish(s,
                      [sess[s] EXCEPT !.pc = "wSync",
                                      !.rpc = [r EXCEPT !.renterSig = renterSig,
                                                 !.hostSig = Sign(HostKey, hashRevision(r.rev))]])
            /\ UNCHANGED store

\* rpcWrite going on although Sync returned an error
SyncErrorIgnored(syncOk) == FALSE

\* rpcWrite returns when the storage manager's Sync returns an error
SyncFailed(syncOk) == ~syncOk

\* rpcWrite, the sync of the storage manager; rpc.synced records that this
\* RPC's Sync returned without an error
rpcWriteSync(s, syncOk, net) ==
    LET r == sess[s].rpc
    IN
    /\ sess[s].alive /\ sess[s].pc = "wSync"
    /\ net # "readFail"
    /\ net = "ok" \/ ~syncOk
    /\ UNCHANGED <<walletVars, form, volumeVars, height, contracts, lease, staged>>
    /\ unsynced' = IF syncOk THEN {} ELSE unsynced
    /\ IF SyncFailed(syncOk)
       THEN /\ Finish(s,
                      WriteErrorAndFail(sess[s], "HostInternalError", net = "ok"))
            /\ store' = Released(store, r)
       ELSE /\ Finish(s, [sess[s] EXCEPT !.pc = "wCommit", !.rpc.synced = syncOk])
            /\ UNCHANGED store

\* rpcWrite, from the commit of the contract modifications
rpcWriteCommit(s, net) ==
    LET r == sess[s].rpc
        id == r.rev.parentID
        signedRevision == [rev |-> r.rev, renterSig |-> r.renterSig, hostSig |-> r.hostSig]
    IN
    /\ sess[s].alive /\ sess[s].pc = "wCommit"
    /\ net # "readFail"
    /\ UNCHANGED <<walletVars, form, volumeVars, height, lease, unsynced>>
    /\ staged' = [staged EXCEPT ![id] = FALSE]
    /\ contracts' = AfterCommit(id, signedRevision, r.roots)
    /\ store' = Released(IF CommitAccepts(id, signedRevision)
                         THEN CommitSectors(store, r.added, r.trimmed) ELSE store, r)
    /\ IF CommitFailed(id, signedRevision)
       THEN Finish(s, WriteErrorAndFail(sess[s], "HostInternalError", net = "ok"))
       ELSE LET done == Spend([Charge(sess[s], id, signedRevision, r.cost)
                                 EXCEPT !.contract = signedRevision], r.cost)
            IN  IF net = "writeFail"
                THEN Finish(s, Failed(done))
                ELSE Finish(s, [done EXCEPT !.pc = "idle", !.rpc = NoRpc, !.resp = "Write"])

\* the actions a renter sends, and the batches of them
WriteActions ==
    {ActAppend(d) : d \in SectorData} \cup {ActTrim(1), ActSwap(0, 1)}
    \cup {ActUpdate(0, 0, d) : d \in UpdateData}

WriteBatches == UNION {[1..n -> WriteActions] : n \in 1..MaxActions}

\* the sectors a batch adds to a contract
RECURSIVE Growth(_)
Growth(actions) ==
    IF actions = <<>> THEN 0
    ELSE (IF Head(actions).type = "Append" THEN 1 ELSE 0) + Growth(Tail(actions))

----------------------------------------------------------------------------
(* Read *)

\* a section of a read request
Section(root, offset, length) == [root |-> root, offset |-> offset, length |-> length]

\* Offset and Length are uint64. A value near zero is written as itself and a
\* value near 2^64 as the negative number it is congruent to (2^64 - k is -k),
\* so that the sum below is the sum modulo 2^64 and U64Gt is the unsigned order.
U64Add(a, b) == a + b
U64Gt(a, b) == IF (a < 0) = (b < 0) THEN a > b ELSE a < 0

\* the checks of one section; "ok" when it passes
SectionError(sec, proof) ==
    IF U64Gt(U64Add(sec.offset, sec.length), SectorSize) THEN "request is out-of-bounds"
    ELSE IF sec.length = 0 THEN "length cannot be zero"
    ELSE IF proof /\ (sec.offset % LeafSize # 0 \/ sec.length % LeafSize # 0)
    THEN "offset and length must be multiples of SegmentSize"
    ELSE "ok"

RECURSIVE Bandwidth(_, _)
\* the bytes of the sections and of their proofs
Bandwidth(sections, proof) ==
    IF sections = <<>> THEN 0
    ELSE LET sec == Head(sections)
             start == sec.offset \div LeafSize
             end == (sec.offset + sec.length) \div LeafSize
         IN  sec.length
             + (IF proof THEN RangeProofSize(LeavesPerSector, start, end) * HashSize ELSE 0)
             + Bandwidth(Tail(sections), proof)

\* rpcRead, up to the signing of the revision
rpcReadBegin(s, sections, proof, revnum, kind, goodSig, net) ==
    LET cur == sess[s].contract.rev
        bad == {i \in 1..Len(sections) : SectionError(sections[i], proof) # "ok"}
        first == CHOOSE i \in bad : \A j \in bad : i <= j
        bandwidth == Bandwidth(sections, proof)
        cost == Settings.DownloadBandwidthPrice * bandwidth
                + Settings.SectorAccessPrice * Len(sections)
        values == ProposedValues(cur, cost, 0, kind)
        revised == revise(cur, revnum, values.valid, values.missed)
        revision == revised.rev
        sig == RenterSig(goodSig, revision)
    IN
    /\ Idle(s)
    /\ sess[s].contract.rev.revnum < MaxRevNum /\ revnum <= MaxRevNum
    /\ UNCHANGED <<walletVars, form, volumeVars, height, contracts, lease, staged, store, unsynced>>
    /\ IF ~ContractRevisable(sess[s], height)
       THEN Finish(s, WriteError(sess[s], "contract not revisable", net = "ok"))
       ELSE IF net = "readFail"
       THEN Finish(s, Failed(sess[s]))
       ELSE IF bad # {}
       THEN Finish(s, WriteError(sess[s], SectionError(sections[first], proof), net = "ok"))
       ELSE IF ~Sendable(values) \/ ~revised.ok
       THEN Finish(s, WriteError(sess[s], "failed to revise contract", net = "ok"))
       ELSE IF ~Verify(RenterKey(cur.parentID), hashRevision(revision), sig)
       THEN Finish(s, WriteError(sess[s], "InvalidRenterSignature", net = "ok"))
       ELSE IF RevisionInvalid(cur, revision, cost, 0)
       THEN Finish(s, WriteError(sess[s], "failed to validate revision", net = "ok"))
       ELSE Finish(s, [sess[s] EXCEPT !.pc = "rCommit",
                          !.rpc = [NoRpc EXCEPT !.rev = revision, !.cost = cost,
                                      !.renterSig = sig,
                                      !.hostSig = Sign(HostKey, hashRevision(revision)),
                                      !.sections = sections, !.proof = proof]])

\* rpcRead, the commit of the revision and the start of the ReadStop watcher
rpcReadCommit(s, net) ==
    LET r == sess[s].rpc
        id == r.rev.parentID
        signedRevision == [rev |-> r.rev, renterSig |-> r.renterSig, hostSig |-> r.hostSig]
    IN
    /\ sess[s].alive /\ sess[s].pc = "rCommit"
    /\ net # "readFail"
    /\ UNCHANGED <<walletVars, form, volumeVars, height, lease, staged, store, unsynced>>
    /\ IF staged[id]
       THEN /\ Finish(s, WriteErrorAndFail(sess[s], "HostInternalError", net = "ok"))
            /\ UNCHANGED contracts
       ELSE IF CommitFailed(id, signedRevision)
       THEN /\ Finish(s, WriteErrorAndFail(sess[s], "HostInternalError", net = "ok"))
            /\ contracts' = AfterCommit(id, signedRevision, contracts[id].roots)
       ELSE /\ net = "ok"
            /\ contracts' = AfterCommit(id, signedRevision, contracts[id].roots)
            /\ Finish(s, [Spend([Charge(sess[s], id, signedRevision, r.cost)
                                   EXCEPT !.contract = signedRevision], r.cost)
                            EXCEPT !.pc = "rStream", !.watcher = "reading"])

\* the ReadStop watcher: the renter's next message arrives (ReadStop, or
\* something else), or reading it fails or times out
rpcReadWatcher(s, signal) ==
    /\ sess[s].alive /\ sess[s].pc = "rStream" /\ sess[s].watcher = "reading"
    /\ sess' = [sess EXCEPT ![s].watcher = signal]
    /\ last' = NoStep
    /\ UNCHANGED <<walletVars, form, volumeVars, height, contracts, lease, staged, store, unsynced>>

\* The watcher of a Read whose handler has returned is still reading the
\* session's stream, as the RPC loop is: the renter's next message, the
\* identifier of its next RPC, goes to one of them. When the watcher takes it
\* the watcher ends, the RPC loop finds no identifier where it reads one, and
\* the session ends.
rpcReadWatcherStray(s) ==
    /\ Idle(s) /\ sess[s].watcher = "reading"
    /\ Finish(s, Failed([sess[s] EXCEPT !.watcher = "none"]))
    /\ UNCHANGED <<walletVars, form, volumeVars, height, contracts, lease, staged, store, unsynced>>

\* sector[sec.Offset : sec.Offset+sec.Length] of a sector of SectorSize bytes
\* is a slice; it is a runtime panic otherwise
SliceInBounds(sec) ==
    /\ ~U64Gt(sec.offset, U64Add(sec.offset, sec.length))
    /\ ~U64Gt(U64Add(sec.offset, sec.length), SectorSize)

\* i == len(req.Sections)-1
LastSection(r) == r.idx = Len(r.sections) - 1

\* rpcRead, one pass of the response loop
rpcReadSection(s, readOk, net) ==
    LET r == sess[s].rpc
        sec == r.sections[r.idx + 1]
        stopped == sess[s].watcher \in {"stop", "error"}
    IN
    /\ sess[s].alive /\ sess[s].pc = "rStream"
    /\ r.idx < Len(r.sections)
    /\ net # "readFail"
    /\ UNCHANGED <<walletVars, form, volumeVars, height, contracts, lease, staged, store, unsynced>>
    /\ IF sec.root \notin DOMAIN store \/ ~readOk
       THEN FinishRead(s, WriteError(sess[s], "failed to get sector", net = "ok"))
       ELSE IF ~SliceInBounds(sec)
       THEN /\ net = "ok"
            /\ FinishRead(s, Failed(sess[s]))
       ELSE IF sess[s].watcher = "error"
       THEN /\ net = "ok"
            /\ FinishRead(s, Failed([sess[s] EXCEPT !.watcher = "none"]))
       ELSE IF sess[s].watcher = "stop"
       THEN IF net = "ok"
            THEN FinishRead(s, [sess[s] EXCEPT !.watcher = "none", !.pc = "idle",
                                               !.rpc = NoRpc, !.resp = "ReadResponseSigned"])
            ELSE FinishRead(s, Failed([sess[s] EXCEPT !.watcher = "none"]))
       ELSE IF net = "writeFail"
       THEN FinishRead(s, Failed(sess[s]))
       ELSE FinishRead(s, [sess[s] EXCEPT
                              !.rpc.idx = @ + 1,
                              !.rpc.sigs = IF LastSection(r) THEN @ + 1 ELSE @,
                              !.resp = IF LastSection(r)
                                       THEN "ReadResponseSigned" ELSE "ReadResponse"])

\* rpcRead, after the loop: the handler waits for the watcher
rpcReadEnd(s) ==
    LET r == sess[s].rpc
    IN
    /\ sess[s].alive /\ sess[s].pc = "rStream"
    /\ r.idx = Len(r.sections)
    /\ sess[s].watcher \in {"stop", "error"}
    /\ UNCHANGED <<walletVars, form, volumeVars, height, contracts, lease, staged, store, unsynced>>
    /\ IF sess[s].watcher = "stop"
       THEN Finish(s, [sess[s] EXCEPT !.watcher = "none", !.pc = "idle", !.rpc = NoRpc])
       ELSE Finish(s, Failed([sess[s] EXCEPT !.watcher = "none"]))

----------------------------------------------------------------------------
(* Settings *)

\* the name of each settings field in the JSON object
JSONName ==
    [ StoragePrice |-> "storageprice", UploadBandwidthPrice |-> "uploadbandwidthprice",
      DownloadBandwidthPrice |-> "downloadbandwidthprice",
      SectorAccessPrice |-> "sectoraccessprice", Collateral |-> "collateral",
      ContractPrice |-> "contractprice" ]

MarshalUntagged(settings) ==
    { [name |-> f, value |-> ToString(settings[f])] : f \in DOMAIN settings }

\* json.Marshal(settings): one member per field, a Currency as its decimal
\* string
Marshal(settings) ==
    { [name |-> JSONName[f], value |-> ToString(settings[f])] : f \in DOMAIN settings }

\* rpcSettings
rpcSettings(s, settingsOk, net) ==
    LET new == IF ~settingsOk
               THEN WriteErrorAndFail(sess[s], "HostInternalError", net = "ok")
               ELSE IF net = "writeFail" THEN Failed(sess[s])
               ELSE [sess[s] EXCEPT !.resp = "Settings"]
    IN
    /\ Idle(s)
    /\ net # "readFail"
    /\ UNCHANGED <<walletVars, form, volumeVars, height, contracts, lease, staged, store, unsynced>>
    /\ sess' = [sess EXCEPT ![s] = Fresh(new)]
    /\ last' = SettingsStep(s, new.resp,
                            IF new.resp = "Settings" THEN Marshal(Settings) ELSE {})

----------------------------------------------------------------------------
\* the chain pump applies a block
ApplyBlock ==
    /\ height < MaxHeight
    /\ height' = height + 1
    /\ last' = NoStep
    /\ UNCHANGED <<walletVars, form, volumeVars, contracts, lease, staged, store, unsynced, sess>>

\* The requests a renter sends. A session without a revisable contract is
\* turned away whatever it sends, so one request stands for all of them; a
\* request is otherwise well-formed with any parameters, or has one fault. One
\* request asks for 2^64 - 1 roots from offset 1 on.
SectorRootsRequests(s) ==
    LET all == sess[s].contract.rev.filesize \div SectorSize
    IN  IF ~ContractRevisable(sess[s], height)
        THEN {[offset |-> 0, count |-> 0, fault |-> "none"]}
        ELSE {[offset |-> o, count |-> n, fault |-> "none"] :
                 o \in 0..MaxSectors, n \in 1..MaxSectors}
             \cup {[offset |-> 0, count |-> all, fault |-> f] : f \in Faults}
             \cup {[offset |-> 1, count |-> -1, fault |-> "none"]}

WriteRequests(s) ==
    LET room == MaxSectors - sess[s].contract.rev.filesize \div SectorSize
        fits == {b \in WriteBatches : Growth(b) <= room}
        one == CHOOSE b \in WriteBatches : Len(b) = 1
    IN  IF ~ContractRevisable(sess[s], height)
        THEN {[actions |-> one, fault |-> "none", failAt |-> 0]}
        ELSE {[actions |-> b, fault |-> "none", failAt |-> 0] : b \in fits}
             \cup {[actions |-> b, fault |-> "none", failAt |-> Len(b)] : b \in fits}
             \cup {[actions |-> b, fault |-> f, failAt |-> 0] :
                     b \in {x \in fits : Len(x) = 1}, f \in Faults}

\* the sections a renter asks for: up to MaxSections of them, each the first
\* leaf of a sector, or one of them malformed; a section with a wrapped offset
\* is asked for without a proof, so that its proof range is never computed
SectionRoots == {SectorRoot("d1")}
GoodSections == UNION {[1..n -> {Section(r, 0, LeafSize) : r \in SectionRoots}] :
                         n \in 0..MaxSections}
BadSections ==
    { <<Section(r, o, l)>> : r \in {SectorRoot("d1")},
                             o \in {0}, l \in {0, SectorSize + 1} }
    \cup { <<Section(SectorRoot("d1"), 1, LeafSize)>> }

\* a section whose Offset is 2^64 - LeafSize: Offset + Length is past the
\* sector, and past 2^64
WrappedSections == { <<Section(SectorRoot("d1"), 0 - LeafSize, 2 * LeafSize)>> }

ReadRequests(s) ==
    IF ~ContractRevisable(sess[s], height)
    THEN {[sections |-> <<>>, proof |-> FALSE, fault |-> "none"]}
    ELSE {[sections |-> x, proof |-> TRUE, fault |-> "none"] : x \in GoodSections \cup BadSections}
         \cup {[sections |-> x, proof |-> FALSE, fault |-> "none"] :
                 x \in BadSections \cup WrappedSections}
         \cup {[sections |-> <<Section(SectorRoot("d1"), 0, LeafSize)>>, proof |-> TRUE,
                 fault |-> f] : f \in Faults}

Next ==
    \/ \E s \in Sessions, id \in LockIDs, net \in Net :
          \E sig \in ChallengeSigs(s, id) : rpcLock(s, id, sig, 1000, net)
    \/ \E s \in Sessions : rpcUnlock(s)
    \/ \E s \in Sessions : \E req \in SectorRootsRequests(s) :
          rpcSectorRootsBegin(s, req.offset, req.count,
                              RevNumOf(req.fault, sess[s].contract.rev),
                              KindOf(req.fault), GoodSigOf(req.fault), NetOf(req.fault))
    \/ \E s \in Sessions, net \in Net : rpcSectorRootsCommit(s, net)
    \/ \E s \in Sessions : \E req \in WriteRequests(s) :
          rpcWriteBegin(s, req.actions, RevNumOf(req.fault, sess[s].contract.rev),
                        KindOf(req.fault), NetOf(req.fault), req.failAt)
    \/ \E s \in Sessions, goodSig \in BOOLEAN, net \in Net : rpcWriteSign(s, goodSig, net)
    \/ \E s \in Sessions, syncOk \in BOOLEAN, net \in Net : rpcWriteSync(s, syncOk, net)
    \/ \E s \in Sessions, net \in Net : rpcWriteCommit(s, net)
    \/ \E s \in Sessions : \E req \in ReadRequests(s) :
          rpcReadBegin(s, req.sections, req.proof, RevNumOf(req.fault, sess[s].contract.rev),
                       KindOf(req.fault), GoodSigOf(req.fault), NetOf(req.fault))
    \/ \E s \in Sessions, net \in Net : rpcReadCommit(s, net)
    \/ \E s \in Sessions, signal \in {"stop", "error"} : rpcReadWatcher(s, signal)
    \/ \E s \in Sessions : rpcReadWatcherStray(s)
    \/ \E s \in Sessions, readOk \in BOOLEAN, net \in Net : rpcReadSection(s, readOk, net)
    \/ \E s \in Sessions : rpcReadEnd(s)
    \/ ApplyBlock

Spec == Init /\ [][Next]_vars

\* the RPCs of a session that locks a contract, writes sectors, pays for sector
\* roots and asks for the settings
NextSettings ==
    \/ \E s \in Sessions, id \in LockIDs, net \in Net :
          \E sig \in ChallengeSigs(s, id) : rpcLock(s, id, sig, 1000, net)
    \/ \E s \in Sessions : rpcUnlock(s)
    \/ \E s \in Sessions : \E req \in SectorRootsRequests(s) :
          rpcSectorRootsBegin(s, req.offset, req.count,
                              RevNumOf(req.fault, sess[s].contract.rev),
                              KindOf(req.fault), GoodSigOf(req.fault), NetOf(req.fault))
    \/ \E s \in Sessions, net \in Net : rpcSectorRootsCommit(s, net)
    \/ \E s \in Sessions : \E req \in WriteRequests(s) :
          rpcWriteBegin(s, req.actions, RevNumOf(req.fault, sess[s].contract.rev),
                        KindOf(req.fault), NetOf(req.fault), req.failAt)
    \/ \E s \in Sessions, goodSig \in BOOLEAN, net \in Net : rpcWriteSign(s, goodSig, net)
    \/ \E s \in Sessions, syncOk \in BOOLEAN, net \in Net : rpcWriteSync(s, syncOk, net)
    \/ \E s \in Sessions, net \in Net : rpcWriteCommit(s, net)
    \/ \E s \in Sessions, settingsOk \in BOOLEAN, net \in Net :
          rpcSettings(s, settingsOk, net)

SpecSettings == Init /\ [][NextSettings]_vars

\* Lock and Unlock with every timeout a renter may send and with the challenge
\* signatures of earlier Locks, between blocks
NextLock ==
    \/ \E s \in Sessions, id \in LockIDs, timeout \in Timeouts, net \in Net :
          \E sig \in ChallengeSigs(s, id) \cup AcceptedSigs(s, id) :
              rpcLock(s, id, sig, timeout, net)
    \/ \E s \in Sessions : rpcUnlock(s)
    \/ ApplyBlock

SpecLock == Init /\ [][NextLock]_vars

----------------------------------------------------------------------------
(* Wallet *)

Range(seq) == {seq[i] : i \in 1..Len(seq)}

RECURSIVE SumValues(_)
\* sum of the values of a sequence of elements
SumValues(elements) ==
    IF elements = <<>> THEN 0
    ELSE Head(elements).value + SumValues(Tail(elements))

SkipsOnlyLocked(w, id) == id \in w.locked

\* sw.locked[sce.ID] || sw.tpool[sce.ID]
Skips(w, id) == id \in w.locked \/ id \in w.tpool

RECURSIVE Balance(_, _)
\* Balance over the outputs from index i on: spendable and confirmed
Balance(w, i) ==
    IF i > Len(w.utxos) THEN [spendable |-> 0, confirmed |-> 0]
    ELSE LET sco == w.utxos[i]
             rest == Balance(w, i + 1)
         IN  [ confirmed |-> sco.value + rest.confirmed,
               spendable |-> IF sco.id \notin w.locked \/ sco.id \in w.tpool
                             THEN sco.value + rest.spendable
                             ELSE rest.spendable ]

RECURSIVE FundingElements(_, _, _, _)
\* the selection loop of FundTransaction from index i on, with the elements
\* selected so far
FundingElements(w, amount, i, selected) ==
    IF i > Len(w.utxos) THEN selected
    ELSE IF Skips(w, w.utxos[i].id) THEN FundingElements(w, amount, i + 1, selected)
    ELSE IF SumValues(selected) + w.utxos[i].value >= amount
         THEN Append(selected, w.utxos[i])
         ELSE FundingElements(w, amount, i + 1, Append(selected, w.utxos[i]))

IDs(elements) == [i \in 1..Len(elements) |-> elements[i].id]

InsufficientNever(inputSum, amount) == FALSE

\* inputSum.Cmp(amount) < 0
Insufficient(inputSum, amount) == inputSum < amount

\* FundTransaction, called by handler f for its formation transaction
FundTransaction(f, amount) ==
    LET fundingElements == FundingElements(wallet, amount, 1, <<>>)
        inputSum == SumValues(fundingElements)
        txn == funds[f].txn
        change == IF inputSum > amount
                  THEN <<[value |-> inputSum - amount, address |-> WalletAddress]>>
                  ELSE <<>>
        toSign == IDs(fundingElements)
    IN
    /\ funds[f].status = "none"
    /\ UNCHANGED <<hostVars, volumeVars>>
    /\ IF amount = 0
       THEN /\ funds' = [funds EXCEPT ![f] = [NoFund EXCEPT !.status = "funded"]]
            /\ UNCHANGED wallet
       ELSE IF Insufficient(inputSum, amount)
       THEN /\ funds' = [funds EXCEPT ![f] = [NoFund EXCEPT !.err = "insufficient balance"]]
            /\ UNCHANGED wallet
       ELSE /\ funds' = [funds EXCEPT ![f] =
                           [ status |-> "funded",
                             txn |-> [inputs |-> txn.inputs \o toSign,
                                      outputs |-> txn.outputs \o change],
                             toSign |-> toSign, release |-> TRUE, err |-> "none",
                             held |-> Range(toSign) ]]
            /\ wallet' = [wallet EXCEPT !.locked = @ \cup Range(toSign)]

\* rpcFormContract: the signed formation set is accepted by the transaction pool
rpcFormContractBroadcast(f) ==
    /\ funds[f].status = "funded"
    /\ funds' = [funds EXCEPT ![f].status = "broadcast"]
    /\ UNCHANGED <<hostVars, volumeVars, wallet>>

\* rpcFormContract returns, with an error before the broadcast or without one
\* after it: the deferred discard runs. Calling the nil release that
\* FundTransaction returns for a zero amount is a runtime panic.
rpcFormContractReturn(f) ==
    /\ funds[f].status \in {"funded", "broadcast"}
    /\ UNCHANGED <<hostVars, volumeVars>>
    /\ IF ~funds[f].release
       THEN /\ funds' = [funds EXCEPT ![f].status = "panic"]
            /\ UNCHANGED wallet
       ELSE /\ wallet' = [wallet EXCEPT !.locked = @ \ Range(funds[f].toSign)]
            /\ funds' = [funds EXCEPT ![f] =
                           IF funds[f].status = "broadcast"
                           THEN [@ EXCEPT !.status = "formed"]
                           ELSE NoFund]

\* ReceiveUpdatedUnconfirmedTransactions for a diff that reverts the sets
\* reverted and applies set id, whose transactions spend the unspent outputs
\* inputs of the wallet's address
ReceiveUpdatedUnconfirmedTransactions(reverted, id, inputs) ==
    LET gone == UNION {wallet.txnsets[t] : t \in reverted}
        kept == [t \in TxnSetIDs |-> IF t \in reverted THEN {} ELSE wallet.txnsets[t]]
    IN
    /\ \A t \in reverted : wallet.txnsets[t] # {}
    /\ kept[id] = {}
    /\ inputs \subseteq Range(IDs(wallet.utxos))
    /\ wallet' = [wallet EXCEPT !.tpool = (@ \ gone) \cup inputs,
                                !.txnsets = [kept EXCEPT ![id] = inputs]]
    /\ UNCHANGED <<hostVars, volumeVars, funds, form>>

\* ProcessConsensusChange for one siacoin output diff of the wallet's address:
\* the output appears (created, or its spend reverted) or disappears (spent,
\* or its creation reverted)
ProcessConsensusChange(id, apply) ==
    LET present == id \in Range(IDs(wallet.utxos))
    IN
    /\ apply = ~present
    /\ wallet' = IF apply
                 THEN [wallet EXCEPT !.utxos = Append(@, SiacoinElement(id))]
                 ELSE [wallet EXCEPT
                         !.utxos = SelectSeq(@, LAMBDA sce : sce.id # id),
                         !.locked = @ \ {id},
                         !.tpool = @ \ {id}]
    /\ funds' = [f \in Funders |->
                   [funds[f] EXCEPT !.held = IF apply THEN @ ELSE @ \ {id}]]
    /\ UNCHANGED <<hostVars, volumeVars, form>>

----------------------------------------------------------------------------
(* rpcFormContract *)

AnyFileContracts(req) == req.txns = 0

\* len(formationTxnSet) == 0 ||
\* len(formationTxnSet[len(formationTxnSet)-1].FileContracts) != 1
TxnMissingContract(req) == req.txns = 0 \/ req.fileContracts # 1

\* req.RenterKey.Algorithm != types.SignatureEd25519
UnsupportedKey(req) == req.algorithm # "ed25519"

\* rpcFormContract up to the host's signature of the initial revision: the
\* request is read and checked, the file contract validated, and the host's
\* collateral amount funded from the wallet
rpcFormContractBegin(f, req, net) ==
    LET fm == [form[f] EXCEPT !.resp = "none"]
        Reject(err) ==
            /\ form' = [form EXCEPT ![f] = WriteError(fm, err, net = "ok")]
            /\ UNCHANGED <<hostVars, volumeVars, walletVars>>
    IN
    /\ form[f].alive /\ form[f].pc = "idle"
    /\ funds[f].status = "none"
    /\ IF net = "readFail"
       THEN /\ form' = [form EXCEPT ![f] = Failed(form[f])]
            /\ UNCHANGED <<hostVars, volumeVars, walletVars>>
       ELSE IF TxnMissingContract(req) THEN Reject("ErrTxnMissingContract")
       ELSE IF UnsupportedKey(req) THEN Reject("unsupported renter key algorithm")
       ELSE IF ~req.valid THEN Reject("contract rejected: validation failed")
       ELSE /\ FundTransaction(f, req.collateral)
            /\ form' = [form EXCEPT ![f] =
                          IF funds'[f].err # "none"
                          THEN WriteErrorAndFail(fm, "ErrHostInternalError", net = "ok")
                          ELSE [fm EXCEPT !.pc = "funded"]]

\* the session after the handler returned and its deferred discard ran: calling
\* a nil discard panics
Discarded(f, new) == IF funds[f].release THEN new ELSE Failed(new)

\* !ed25519.Verify(renterPub.Key, sigHash[:], renterSig)
InvalidRenterSignature(sigOk) == ~sigOk

\* rpcFormContract from the host additions to the broadcast: the additions are
\* written, the renter's signatures read and verified, the transaction signed
\* and handed to the transaction pool
rpcFormContractSign(f, sigOk, acceptOk, net) ==
    LET fm == [form[f] EXCEPT !.resp = "none"]
        Return(new) ==
            /\ rpcFormContractReturn(f)
            /\ form' = [form EXCEPT ![f] = Discarded(f, new)]
    IN
    /\ form[f].alive /\ form[f].pc = "funded"
    /\ IF net # "ok" THEN Return(Failed(fm))
       ELSE IF InvalidRenterSignature(sigOk)
       THEN Return(WriteError(fm, "ErrInvalidRenterSignature", TRUE))
       ELSE IF ~acceptOk
       THEN Return(WriteError([fm EXCEPT !.verified = TRUE],
                              "failed to broadcast formation transaction", TRUE))
       ELSE /\ rpcFormContractBroadcast(f)
            /\ form' = [form EXCEPT ![f] =
                          [fm EXCEPT !.pc = "broadcast", !.verified = TRUE,
                                     !.broadcast = TRUE]]

\* rpcFormContract from the broadcast on: the contract is added to the contract
\* manager, the contract price spent, and the host's signatures written
rpcFormContractAdd(f, addOk, net) ==
    LET fm == [form[f] EXCEPT !.resp = "none"]
        added == Spend([fm EXCEPT !.contract = TRUE], Settings.ContractPrice)
    IN
    /\ form[f].alive /\ form[f].pc = "broadcast"
    /\ rpcFormContractReturn(f)
    /\ form' = [form EXCEPT ![f] =
                  Discarded(f,
                    IF ~addOk
                    THEN WriteErrorAndFail(fm, "ErrHostInternalError", net = "ok")
                    ELSE IF net = "writeFail" THEN Failed(added)
                    ELSE [added EXCEPT !.pc = "idle", !.resp = "signatures"])]

\* the requests a renter may send: the length of the transaction set, the file
\* contracts of its last transaction, the renter key's algorithm, whether the
\* first file contract passes validateContractFormation, and the host
\* collateral it asks for (its host payout less the contract price). A request
\* with a defect asks for the largest collateral.
FormRequests ==
    { req \in [ txns : 0..1, fileContracts : 0..2,
                algorithm : {"ed25519", "entropy"}, valid : BOOLEAN,
                collateral : 0..MaxAmount ] :
        /\ req.txns = 0 => req.fileContracts = 0
        /\ req.fileContracts = 0 => ~req.valid
        /\ (TxnMissingContract(req) \/ UnsupportedKey(req) \/ ~req.valid)
              => req.collateral = MaxAmount }

NextForm ==
    \/ \E f \in Funders, req \in FormRequests, net \in Net :
          rpcFormContractBegin(f, req, net)
    \/ \E f \in Funders, sigOk \in BOOLEAN, acceptOk \in BOOLEAN, net \in Net :
          rpcFormContractSign(f, sigOk, acceptOk, net)
    \/ \E f \in Funders, addOk \in BOOLEAN, net \in Net : rpcFormContractAdd(f, addOk, net)
    \/ \E id \in OutputIDs, apply \in BOOLEAN : ProcessConsensusChange(id, apply)

SpecForm == Init /\ [][NextForm]_vars

----------------------------------------------------------------------------
(* Volume calls. OpenVolume, Sync and Close hold v.mu from entry to return and
   are one step each; Resize holds it over several file operations;
   ReadSector and WriteSector test v.data and use the file without v.mu and
   take it only to update the statistics. *)

KeepOldest(errors) ==
    IF Len(errors) > MaxErrors THEN SubSeq(errors, 1, MaxErrors) ELSE errors

\* the cut of appendError
KeepNewest(errors) ==
    IF Len(errors) > MaxErrors
    THEN SubSeq(errors, Len(errors) - MaxErrors + 1, Len(errors))
    ELSE errors

\* volume.appendError: an error is recorded as its number in the order of
\* occurrence
appendError(v) ==
    [v EXCEPT !.clock = @ + 1,
              !.stats.Errors = KeepNewest(Append(@, v.clock + 1))]

\* v.mu is free
Unlocked == volume.resizing.pc = "none"

\* volume.OpenVolume
OpenVolume(reload, openOk) ==
    /\ ~volume.crashed /\ Unlocked
    /\ volume' = IF (volume.data # "nil" /\ ~reload) \/ ~openOk
                 THEN volume
                 ELSE [volume EXCEPT !.data = "open"]
    /\ UNCHANGED <<hostVars, walletVars, form, calls>>

\* the file operation of a call that tested v.data before: with v.data nil
\* since, the call dereferences nil when it loads v.data afresh and uses the
\* closed file when it kept the value it tested. A read needs the sector to
\* lie within the file.
FileResult(op, fresh, ioOk) ==
    IF fresh /\ volume.data = "nil" THEN "panic"
    ELSE IF ~fresh /\ calls[op].stale THEN "err"
    ELSE IF ~ioOk THEN "err"
    ELSE IF op = "read" /\ calls[op].index >= volume.size THEN "err"
    ELSE "ok"

\* volume.ReadSector: the test of v.data, v.data.ReadAt, and the update of the
\* statistics under v.mu
ReadSector(index, fresh, ioOk) ==
    LET c == calls["read"]
        result == FileResult("read", fresh, ioOk)
    IN
    /\ ~volume.crashed
    /\ UNCHANGED <<hostVars, walletVars, form>>
    /\ \/ /\ c.pc = "idle"
          /\ volume.stats.SuccessfulReads + volume.stats.FailedReads < MaxCalls
          /\ calls' = [calls EXCEPT !["read"] =
                         IF volume.data = "nil"
                         THEN [NoCall EXCEPT !.ret = "ErrVolumeNotAvailable"]
                         ELSE [NoCall EXCEPT !.pc = "checked", !.index = index]]
          /\ UNCHANGED volume
       \/ /\ c.pc = "checked"
          /\ calls' = [calls EXCEPT !["read"] = [c EXCEPT !.pc = "io", !.ret = result]]
          /\ volume' = [volume EXCEPT !.crashed = (result = "panic")]
       \/ /\ c.pc = "io" /\ Unlocked
          /\ calls' = [calls EXCEPT !["read"] = [NoCall EXCEPT !.ret = c.ret]]
          /\ volume' = IF c.ret = "err"
                       THEN appendError([volume EXCEPT !.stats.FailedReads = @ + 1])
                       ELSE [volume EXCEPT !.stats.SuccessfulReads = @ + 1]

\* volume.WriteSector: the test of v.data, v.data.WriteAt, and the update of
\* the statistics under v.mu
WriteSector(index, fresh, ioOk) ==
    LET c == calls["write"]
        result == FileResult("write", fresh, ioOk)
    IN
    /\ ~volume.crashed
    /\ UNCHANGED <<hostVars, walletVars, form>>
    /\ \/ /\ c.pc = "idle"
          /\ volume.stats.SuccessfulWrites + volume.stats.FailedWrites < MaxCalls
          /\ calls' = [calls EXCEPT !["write"] =
                         IF volume.data = "nil"
                         THEN [NoCall EXCEPT !.ret = "panic"]
                         ELSE [NoCall EXCEPT !.pc = "checked", !.index = index]]
          /\ volume' = [volume EXCEPT !.crashed = (volume.data = "nil")]
       \/ /\ c.pc = "checked"
          /\ calls' = [calls EXCEPT !["write"] = [c EXCEPT !.pc = "io", !.ret = result]]
          /\ volume' = [volume EXCEPT
                          !.crashed = (result = "panic"),
                          !.size = IF result = "ok" /\ c.index >= @
                                   THEN c.index + 1 ELSE @]
       \/ /\ c.pc = "io" /\ Unlocked
          /\ calls' = [calls EXCEPT !["write"] = [NoCall EXCEPT !.ret = c.ret]]
          /\ volume' = IF c.ret = "err"
                       THEN appendError([volume EXCEPT !.stats.FailedWrites = @ + 1])
                       ELSE [volume EXCEPT !.stats.SuccessfulWrites = @ + 1]

\* volume.Sync
Sync(syncOk) ==
    /\ ~volume.crashed /\ Unlocked
    /\ syncOk \/ volume.clock < MaxFailures
    /\ volume' = IF volume.data = "nil" \/ syncOk THEN volume ELSE appendError(volume)
    /\ UNCHANGED <<hostVars, walletVars, form, calls>>

\* Resize returned ret and released v.mu
ResizeReturned(r, ret) == [pc |-> "none", old |-> r.old, new |-> r.new, i |-> 0, ret |-> ret]

\* volume.Resize(oldSectors, newSectors), called with the file's length as
\* oldSectors: it takes v.mu, grows the file slot by slot or truncates it, and
\* returns at the first error
Resize(newSectors, ioOk) ==
    LET r == volume.resizing
    IN
    /\ ~volume.crashed
    /\ UNCHANGED <<hostVars, walletVars, form, calls>>
    /\ \/ /\ r.pc = "none"
          /\ volume' = IF volume.data = "nil" THEN volume
                       ELSE [volume EXCEPT !.resizing =
                               [pc |-> "running", old |-> volume.size,
                                new |-> newSectors, i |-> volume.size, ret |-> "none"]]
       \/ /\ r.pc = "running"
          /\ volume' =
               IF r.new > r.old
               THEN IF ~ioOk THEN [volume EXCEPT !.resizing = ResizeReturned(r, "err")]
                    ELSE [volume EXCEPT
                            !.size = IF r.i >= @ THEN r.i + 1 ELSE @,
                            !.resizing = IF r.i + 1 < r.new
                                         THEN [r EXCEPT !.i = @ + 1]
                                         ELSE ResizeReturned(r, "ok")]
               ELSE [volume EXCEPT !.size = IF ioOk THEN r.new ELSE @,
                                   !.resizing = ResizeReturned(r, IF ioOk THEN "ok" ELSE "err")]

\* volume.Close
Close(syncOk, closeOk) ==
    /\ ~volume.crashed /\ Unlocked
    /\ IF volume.data = "nil" \/ ~syncOk \/ ~closeOk
       THEN UNCHANGED volumeVars
       ELSE /\ volume' = [volume EXCEPT !.data = "nil", !.stats.Status = "unavailable"]
            /\ calls' = [op \in DOMAIN calls |->
                           [calls[op] EXCEPT !.stale = @ \/ calls[op].pc = "checked"]]
    /\ UNCHANGED <<hostVars, walletVars, form>>

\* the calls of the storage manager and its callers on one volume
NextVolume ==
    \/ \E reload \in BOOLEAN, openOk \in BOOLEAN : OpenVolume(reload, openOk)
    \/ \E index \in 0..(MaxVolumeSectors - 1), fresh \in BOOLEAN, ioOk \in BOOLEAN :
          ReadSector(index, fresh, ioOk)
    \/ \E index \in 0..(MaxVolumeSectors - 1), fresh \in BOOLEAN, ioOk \in BOOLEAN :
          WriteSector(index, fresh, ioOk)
    \/ \E syncOk \in BOOLEAN : Sync(syncOk) /\ (syncOk \/ volume.clock < MaxCalls)
    \/ \E newSectors \in 0..MaxVolumeSectors, ioOk \in BOOLEAN : Resize(newSectors, ioOk)
    \/ \E syncOk \in BOOLEAN, closeOk \in BOOLEAN : Close(syncOk, closeOk)

SpecVolume == Init /\ [][NextVolume]_vars

\* sequences of ReadSector, WriteSector and Sync calls on an opened volume
NextVolumeErrors ==
    \/ \E openOk \in BOOLEAN : OpenVolume(FALSE, openOk)
    \/ \E index \in 0..(MaxVolumeSectors - 1), ioOk \in BOOLEAN :
          ReadSector(index, TRUE, ioOk)
    \/ \E index \in 0..(MaxVolumeSectors - 1), ioOk \in BOOLEAN :
          WriteSector(index, TRUE, ioOk)
    \/ \E syncOk \in BOOLEAN : Sync(syncOk)

SpecVolumeErrors == Init /\ [][NextVolumeErrors]_vars

----------------------------------------------------------------------------
\* the amounts a handler asks for, and the inputs of a transaction set
Amounts == 0..MaxAmount
SetInputs == {x \in SUBSET OutputIDs : Cardinality(x) \in {1, 2}}
Reverts == {x \in SUBSET TxnSetIDs : Cardinality(x) <= 1}

NextWallet ==
    \/ \E f \in Funders, amount \in Amounts :
          FundTransaction(f, amount) /\ UNCHANGED form
    \/ \E f \in Funders : rpcFormContractBroadcast(f) /\ UNCHANGED form
    \/ \E f \in Funders : rpcFormContractReturn(f) /\ UNCHANGED form
    \/ \E reverted \in Reverts, id \in TxnSetIDs, inputs \in SetInputs :
          ReceiveUpdatedUnconfirmedTransactions(reverted, id, inputs)
    \/ \E id \in OutputIDs, apply \in BOOLEAN : ProcessConsensusChange(id, apply)

SpecWallet == Init /\ [][NextWallet]_vars

----------------------------------------------------------------------------
(* Properties *)

\* C1: when a session holding the lease on contract c completes Unlock, the
\* lease on c is released and the session holds no contract
C1_UnlockReleasesLease ==
    [][\A s \in Sessions, c \in ContractIDs :
          (rpcUnlock(s) /\ Held(s) = c /\ lease[c] = s)
             => (lease'[c] = NoSession /\ sess'[s].contract = NoSigned)]_vars

\* a session that completed Unlock holds no contract while the manager still
\* has it as the holder of the lease
C1_LeaseLeaked ==
    \E s \in Sessions, c \in ContractIDs :
        sess[s].alive /\ Held(s) = NoContract /\ lease[c] = s

\* C2: while session a holds the lease on contract c, a Lock by another
\* session never answers Acquired, never changes that session's contract and
\* never takes the lease from a
C2_LeaseMutualExclusion ==
    [][\A a \in Sessions, b \in Sessions, c \in ContractIDs :
          (a # b /\ lease[c] = a /\ last'.rpc = "Lock" /\ last'.s = b)
             => /\ last'.resp # "Acquired"
                /\ sess'[b].contract = sess[b].contract
                /\ lease'[c] = a]_vars

\* a Lock by one session was turned away while the other held the lease
C2_LockRefused ==
    \E a \in Sessions, b \in Sessions, c \in ContractIDs :
        /\ a # b /\ lease[c] = a /\ Held(a) = c
        /\ last.s = b /\ last.resp = "failed to lock contract"

\* C3: a Lock by a session that already holds a contract does not ask the
\* contract manager for a lease, changes neither the leases nor the session's
\* contract and challenge, and answers ContractAlreadyLocked (or the session
\* ends because the transport failed)
C3_AlreadyLockedRejected ==
    [][\A s \in Sessions :
          (last'.rpc = "Lock" /\ last'.s = s /\ Held(s) # NoContract)
             => /\ ~last'.managerLock
                /\ lease' = lease
                /\ sess'[s].contract = sess[s].contract
                /\ sess'[s].challenge = sess[s].challenge
                /\ last'.resp = "ContractAlreadyLocked" \/ ~sess'[s].alive]_vars

\* a session holding a contract was answered ContractAlreadyLocked
C3_SecondLock ==
    \E s \in Sessions :
        /\ last.s = s /\ last.resp = "ContractAlreadyLocked"
        /\ sess[s].alive /\ Held(s) # NoContract

\* C4: a session's contract field is set to c only while the session holds
\* the lease on c
C4_ContractOnlyWhileLeased ==
    \A s \in Sessions, c \in ContractIDs : Held(s) = c => lease[c] = s

\* the signed revision a session's RPC is about to commit
Pending(s) ==
    [rev |-> sess[s].rpc.rev, renterSig |-> sess[s].rpc.renterSig,
     hostSig |-> sess[s].rpc.hostSig]

\* this step is session s's call of ContractUpdater.Commit, and it succeeds
CommitSucceeds(s) ==
    /\ sess[s].alive /\ sess'[s] # sess[s]
    /\ sess[s].pc \in {"srCommit", "wCommit", "rCommit"}
    /\ ~(sess[s].pc \in {"srCommit", "rCommit"} /\ staged[Held(s)])
    /\ CommitAccepts(Held(s), Pending(s))

\* the roots session s's Write wrote to the sector store
WrittenBy(s) == {sess[s].rpc.releases[i] : i \in 1..Len(sess[s].rpc.releases)}

\* C5: when a Write commits, the storage manager's Sync has returned without
\* an error in this RPC and no sector this RPC wrote is still to be synced
C5_SyncBeforeCommit ==
    [][\A s \in Sessions :
          (sess[s].pc \in {"wSign", "wSync", "wCommit"} /\ sess'[s] # sess[s]
             /\ contracts' # contracts)
             => (sess[s].rpc.synced /\ WrittenBy(s) \cap unsynced = {})]_vars

\* a Write committed a sector list with a sector it wrote
C5_WriteCommitted ==
    \E c \in ContractIDs : contracts[c].roots # <<>> /\ unsynced = {}

\* C6: a step of SectorRoots, Read or Write other than a successful Commit
\* changes no contract's stored revision or roots and neither the session's
\* revision nor its spent counter; a successful Commit stores the revision the
\* RPC built
C6_ErrorPathsAtomic ==
    [][(last'.rpc \in {"none", "SectorRoots"} /\ ~(\E s \in Sessions : rpcUnlock(s)))
          => /\ contracts' # contracts => \E s \in Sessions : CommitSucceeds(s)
             /\ \A s \in Sessions :
                   (sess'[s].contract # sess[s].contract \/ sess'[s].spent # sess[s].spent)
                      => /\ CommitSucceeds(s)
                         /\ contracts'[Held(s)].signed = Pending(s)
                         /\ sess'[s].contract = Pending(s)]_vars

\* a Write returned an error after it staged its revision, and the contract
\* still has the revision it was formed with
C6_WriteFailedAfterStaging ==
    \E s \in Sessions, c \in ContractIDs :
        /\ Held(s) = c /\ sess[s].pc = "idle" /\ staged[c]
        /\ contracts[c].signed.rev = InitialRevision(c)
        /\ sess[s].contract.rev = InitialRevision(c) /\ sess[s].spent = 0

\* C7: whenever a contract's stored revision changes, its revision number
\* becomes greater
C7_RevisionNumbersIncrease ==
    [][\A c \in ContractIDs :
          contracts'[c].signed # contracts[c].signed
             => contracts'[c].signed.rev.revnum > contracts[c].signed.rev.revnum]_vars

\* two revisions of a contract were committed
C7_TwoCommits ==
    \E c \in ContractIDs : contracts[c].signed.rev.revnum >= InitialRevision(c).revnum + 2

\* the file size and Merkle root of a contract's revision are those of its
\* sector roots
SizeAndRootMatch(c) ==
    /\ contracts[c].signed.rev.filesize = Len(contracts[c].roots) * SectorSize
    /\ contracts[c].signed.rev.merkle = MerkleRoot(contracts[c].roots)

\* C8: every contract's revision has the file size and the Merkle root of the
\* contract's sector roots, and no step of SectorRoots or Read changes the
\* sector roots, the file size or the Merkle root
C8_SizeAndRootOfSectorList ==
    /\ [](\A c \in ContractIDs : SizeAndRootMatch(c))
    /\ [][\A s \in Sessions :
             (sess[s].pc \in {"srCommit", "rCommit", "rStream"} /\ sess'[s] # sess[s])
                => \A c \in ContractIDs :
                      /\ contracts'[c].roots = contracts[c].roots
                      /\ contracts'[c].signed.rev.filesize = contracts[c].signed.rev.filesize
                      /\ contracts'[c].signed.rev.merkle = contracts[c].signed.rev.merkle]_vars

\* a contract of two sectors whose revision a SectorRoots or Read replaced
C8_TwoSectors ==
    \E c \in ContractIDs :
        /\ Len(contracts[c].roots) = 2
        /\ contracts[c].signed.rev.filesize = 2 * SectorSize
        /\ contracts[c].signed.rev.revnum > InitialRevision(c).revnum + 1

\* C9: a session's spent counter is the sum of the costs of the RPCs whose
\* revision the session committed
C9_SpentIsSumOfCosts ==
    \A s \in Sessions : sess[s].spent = sess[s].charged

\* C10: the valid outputs and the missed outputs of every contract's revision
\* both sum to the payout of the formation contract
C10_PayoutConserved ==
    \A c \in ContractIDs :
        /\ Sum2(contracts[c].signed.rev.valid) = FormationPayout(c)
        /\ Sum3(contracts[c].signed.rev.missed) = FormationPayout(c)

\* a committed revision moved currency from the renter to the host
C10_PaymentCommitted ==
    \E c \in ContractIDs :
        contracts[c].signed.rev.valid[1] < InitialRevision(c).valid[1]

\* C11: a step that commits a revision of contract c is taken at a chain
\* height below the window start of c, whether or not a block was applied
\* since the handler checked that the contract is revisable
C11_NoCommitPastWindowStart ==
    [][\A c \in ContractIDs :
          contracts'[c].signed # contracts[c].signed
             => height < contracts'[c].signed.rev.windowStart]_vars

\* a handler is past its revisable check, has not committed yet, and the
\* chain has reached the window start of the contract it revises
C11_BlockBeforeCommit ==
    \E s \in Sessions :
        /\ sess[s].alive /\ sess[s].pc \in {"srCommit", "wCommit", "rCommit"}
        /\ height >= sess[s].contract.rev.windowStart

\* a pass of the response loop of session s's Read wrote a section response
SectionSent(s) ==
    /\ last'.rpc = "Read" /\ last'.s = s
    /\ last'.resp \in {"ReadResponse", "ReadResponseSigned"}

\* C12: a Read streams only after the step that commits its paying revision:
\* that step finds the renter's signature and the payouts valid, puts the
\* revision in the contract manager and adds the cost to the session's spent;
\* a section response is written only by a Read that took that step
C12_ReadPaidBeforeStreaming ==
    [][\A s \in Sessions :
          LET r == sess[s].rpc
              id == r.rev.parentID
          IN
          /\ (sess'[s].pc = "rStream" /\ sess[s].pc # "rStream")
                => /\ sess[s].pc = "rCommit"
                   /\ Verify(RenterKey(id), hashRevision(r.rev), r.renterSig)
                   /\ validateRevision(sess[s].contract.rev, r.rev, r.cost, 0)
                   /\ contracts'[id].signed.rev = r.rev
                   /\ contracts'[id].signed.renterSig = r.renterSig
                   /\ sess'[s].spent = sess[s].spent + r.cost
                   /\ sess'[s].rpc.idx = 0
          /\ SectionSent(s)
                => /\ sess[s].pc = "rStream"
                   /\ sess[s].contract.rev = r.rev]_vars

\* a Read with a positive cost has written its first section response
C12_FirstSectionSent ==
    \E s \in Sessions :
        /\ last.rpc = "Read" /\ last.s = s /\ last.resp = "ReadResponse"
        /\ sess[s].pc = "rStream" /\ sess[s].rpc.idx = 1 /\ sess[s].rpc.cost > 0
        /\ sess[s].spent >= sess[s].rpc.cost

\* Offset + Length > SECTOR_SIZE as numbers: a negative offset or length
\* stands for a value of at least 2^63
OutOfBounds(sec) ==
    sec.offset < 0 \/ sec.length < 0 \/ sec.offset + sec.length > SectorSize

Malformed(sections, proof) ==
    \E i \in 1..Len(sections) :
        \/ OutOfBounds(sections[i])
        \/ sections[i].length = 0
        \/ proof /\ (sections[i].offset % LeafSize # 0 \/ sections[i].length % LeafSize # 0)

\* C13: a Read request with a malformed section is turned away: the handler
\* goes no further than its checks, builds no revision, and neither the
\* contract manager's record nor the session's contract and spent change
C13_MalformedSectionRejected ==
    [][\A s \in Sessions : \A req \in ReadRequests(s) :
          ( /\ Malformed(req.sections, req.proof)
            /\ rpcReadBegin(s, req.sections, req.proof,
                            RevNumOf(req.fault, sess[s].contract.rev),
                            KindOf(req.fault), GoodSigOf(req.fault), NetOf(req.fault)) )
             => /\ sess'[s].pc = "idle" /\ sess'[s].rpc = NoRpc
                /\ contracts' = contracts
                /\ sess'[s].contract = sess[s].contract
                /\ sess'[s].spent = sess[s].spent]_vars

\* the revision of a Read with an out-of-bounds section was committed and
\* charged
C13_OutOfBoundsCharged ==
    \E s \in Sessions :
        /\ sess[s].alive /\ sess[s].pc = "rStream"
        /\ \E i \in 1..Len(sess[s].rpc.sections) : OutOfBounds(sess[s].rpc.sections[i])
        /\ contracts[Held(s)].signed.rev = sess[s].rpc.rev
        /\ sess[s].spent >= sess[s].rpc.cost /\ sess[s].rpc.cost > 0

\* session s's Read returns without an error in this step: from the response
\* loop on a ReadStop, or after the loop once the watcher saw the ReadStop
ReadSucceeds(s) ==
    /\ sess[s].pc = "rStream" /\ sess'[s].pc = "idle" /\ sess'[s].alive
    /\ ~(last'.rpc = "Read" /\ last'.resp = "failed to get sector")

\* C14: no section response follows a response that carried the host
\* signature, and a Read that returns without an error has sent exactly one
\* response with the host signature, whatever the number of its sections
C14_OneSignedResponseLast ==
    [][\A s \in Sessions :
          /\ SectionSent(s) => sess[s].rpc.sigs = 0
          /\ ReadSucceeds(s)
                => sess[s].rpc.sigs
                     + (IF SectionSent(s) /\ last'.resp = "ReadResponseSigned" THEN 1 ELSE 0)
                   = 1]_vars

\* a committed Read of no section has seen the ReadStop and is about to return
C14_NoSectionNoSignature ==
    \E s \in Sessions :
        /\ sess[s].alive /\ sess[s].pc = "rStream" /\ sess[s].watcher = "stop"
        /\ sess[s].rpc.sections = <<>> /\ sess[s].rpc.sigs = 0
        /\ contracts[Held(s)].signed.rev = sess[s].rpc.rev

\* C15: outside the streaming phase of a Read, that is before its watcher is
\* started and after its handler has returned, no watcher of the session is
\* reading the session's stream
C15_WatcherJoined ==
    \A s \in Sessions : sess[s].pc # "rStream" => sess[s].watcher # "reading"

\* a Read has returned after answering that it failed to get a sector, the
\* session goes on, and the Read's watcher is still reading
C15_WatcherLeftReading ==
    \E s \in Sessions :
        /\ last.rpc = "Read" /\ last.s = s /\ last.resp = "failed to get sector"
        /\ Idle(s) /\ sess[s].watcher = "reading"

\* C16: Balance's confirmed is the sum of all unspent outputs and its
\* spendable is the sum of the unspent outputs that are neither locked nor in
\* the transaction pool
C16_BalanceSums ==
    LET free == SelectSeq(wallet.utxos,
                          LAMBDA sco : sco.id \notin wallet.locked /\ sco.id \notin wallet.tpool)
    IN  /\ Balance(wallet, 1).confirmed = SumValues(wallet.utxos)
        /\ Balance(wallet, 1).spendable = SumValues(free)

\* an unspent output is spent by a transaction set of the pool
C16_OutputInPool ==
    \E i \in 1..Len(wallet.utxos) : wallet.utxos[i].id \in wallet.tpool

\* the unspent outputs that are neither locked nor in the transaction pool,
\* in store order
Unreserved ==
    SelectSeq(wallet.utxos,
              LAMBDA sco : sco.id \notin wallet.locked /\ sco.id \notin wallet.tpool)

\* C17: a FundTransaction for a positive amount that succeeds selects the
\* shortest prefix of the unreserved outputs whose sum reaches the amount,
\* appends one input per selected output in that order, appends a change
\* output to the wallet address exactly when the sum exceeds the amount,
\* returns the selected IDs and adds exactly them to the locked set
C17_FundSelectsFirstPrefix ==
    [][\A f \in Funders, amount \in 1..MaxAmount :
          (FundTransaction(f, amount) /\ funds'[f].status = "funded")
             => LET r == funds'[f]
                    n == Len(r.toSign)
                    sum == SumValues(SubSeq(Unreserved, 1, n))
                IN  /\ n \in 1..Len(Unreserved)
                    /\ r.toSign = IDs(SubSeq(Unreserved, 1, n))
                    /\ sum >= amount
                    /\ SumValues(SubSeq(Unreserved, 1, n - 1)) < amount
                    /\ r.txn.inputs = funds[f].txn.inputs \o r.toSign
                    /\ r.txn.outputs =
                         funds[f].txn.outputs \o
                           (IF sum > amount
                            THEN <<[value |-> sum - amount, address |-> WalletAddress]>>
                            ELSE <<>>)
                    /\ wallet'.locked = wallet.locked \cup Range(r.toSign)
                    /\ wallet'.locked # wallet.locked
                    /\ wallet'.utxos = wallet.utxos /\ wallet'.tpool = wallet.tpool]_vars

\* a call took two outputs and left change
C17_TwoInputsAndChange ==
    \E f \in Funders :
        /\ funds[f].status = "funded" /\ Len(funds[f].toSign) = 2
        /\ Len(funds[f].txn.outputs) = 1

\* a call passed over an output of the pool and took the one after it
C17_SkippedPoolOutput ==
    \E f \in Funders :
        /\ funds[f].status = "funded" /\ Len(funds[f].toSign) = 1
        /\ Len(wallet.utxos) = 2
        /\ wallet.utxos[1].id \in wallet.tpool \ wallet.locked
        /\ funds[f].toSign[1] = wallet.utxos[2].id

\* the call of handler f has succeeded and its release has not run
Unreleased(f) == funds[f].status \in {"funded", "broadcast"}

\* C18: the outputs two calls selected, that no consensus change has removed
\* since, are disjoint as long as neither call's release has run
C18_FundedInputsDisjoint ==
    \A f \in Funders, g \in Funders :
        (f # g /\ Unreleased(f) /\ Unreleased(g))
           => funds[f].held \cap funds[g].held = {}

\* an output selected by one call was removed and brought back by consensus
\* changes and then selected by a second call, and the first call's release
\* has not run yet
C18_StaleRelease ==
    \E f \in Funders, g \in Funders, id \in OutputIDs :
        /\ f # g /\ Unreleased(f) /\ Unreleased(g)
        /\ id \in Range(funds[f].toSign) \ funds[f].held
        /\ id \in funds[g].held /\ id \in wallet.locked

\* C19: the outputs that fund a formation transaction that was broadcast, and
\* that no consensus change has removed since, are selected by no other call
C19_FormedInputsUnavailable ==
    \A f \in Funders, g \in Funders :
        (f # g /\ funds[f].status = "formed")
           => funds[f].held \cap funds[g].held = {}

\* a FormContract has returned after its broadcast and its inputs are neither
\* locked nor in the transaction pool
C19_FormedInputsReleased ==
    \E f \in Funders :
        /\ funds[f].status = "formed" /\ funds[f].held # {}
        /\ funds[f].held \cap (wallet.locked \cup wallet.tpool) = {}

\* C20: a FundTransaction for more than the unreserved outputs sum to fails
\* with the insufficient-balance error and changes neither the transaction
\* nor the wallet
C20_InsufficientLeavesAllUnchanged ==
    [][\A f \in Funders, amount \in 1..MaxAmount :
          (FundTransaction(f, amount) /\ SumValues(Unreserved) < amount)
             => /\ funds'[f].err = "insufficient balance"
                /\ funds'[f].status = "none"
                /\ funds'[f].txn = funds[f].txn
                /\ funds'[f].toSign = <<>>
                /\ wallet' = wallet]_vars

\* a call failed for lack of funds while an unspent output was locked
C20_FailedWhileLocked ==
    \E f \in Funders :
        /\ funds[f].err = "insufficient balance"
        /\ wallet.locked # {} /\ wallet.utxos # <<>>

\* a request that rpcFormContract must reject before it funds anything
Rejected(req) == req.txns = 0 \/ req.fileContracts # 1 \/ req.algorithm # "ed25519" \/ ~req.valid

\* C21: when rpcFormContract reads a request whose transaction set is empty,
\* whose last transaction does not hold exactly one file contract, whose renter
\* key is not Ed25519 or whose file contract fails validation, it answers with
\* the rejection when its write succeeds, and the wallet (its locked outputs
\* included), the handlers' funding, the broadcast and registration flags and
\* the session's spent are what they were
C21_RejectionChangesNothing ==
    [][\A f \in Funders :
         form'[f] # form[f] =>
         \A req \in {r \in FormRequests : Rejected(r)}, net \in {"ok", "writeFail"} :
            rpcFormContractBegin(f, req, net)
            => /\ wallet' = wallet
               /\ funds' = funds
               /\ form'[f].broadcast = form[f].broadcast
               /\ form'[f].contract = form[f].contract
               /\ form'[f].spent = form[f].spent
               /\ form'[f].pc = "idle"
               /\ net = "ok" =>
                    form'[f].resp \in { "ErrTxnMissingContract",
                                        "unsupported renter key algorithm",
                                        "contract rejected: validation failed" }]_vars

\* a request was rejected for its file contracts while the wallet had an output
\* that funding would have locked
C21_RejectedWithFundsAtHand ==
    \E f \in Funders :
        /\ form[f].resp = "ErrTxnMissingContract"
        /\ wallet.utxos # <<>>
        /\ wallet.locked = {}

\* the rpcFormContract handler of f has returned
Returned(f) == form[f].pc = "idle"

\* C22: a contract is registered only after the renter's signature was verified
\* and the formation set accepted by the transaction pool, the contract price
\* is spent only after the contract was registered, and once the handler has
\* returned every formation it broadcast has its contract registered
C22_FormContractStepOrder ==
    \A f \in Funders :
        /\ form[f].contract => form[f].verified /\ form[f].broadcast
        /\ form[f].spent > 0 => form[f].contract
        /\ (Returned(f) /\ form[f].broadcast) => form[f].contract

\* the handler returned an internal error after the formation set was
\* broadcast: no contract was registered for it
C22_BroadcastNotRegistered ==
    \E f \in Funders :
        /\ Returned(f)
        /\ form[f].broadcast /\ ~form[f].contract
        /\ form[f].resp = "ErrHostInternalError"
        /\ funds[f].status = "formed"

\* ReadSector(root) succeeds: the sector store has a location for root, which
\* it keeps while the root's reference count is positive
Located(root) == root \in DOMAIN store /\ store[root].refs > 0

\* C23: every sector root in a contract's committed sector-root list has a
\* location in the sector store, with a positive reference count
C23_CommittedRootsLocated ==
    \A c \in ContractIDs : \A i \in 1..Len(contracts[c].roots) :
        Located(contracts[c].roots[i])

\* with every handler returned, a contract commits to two roots of which the
\* store locates only the second
C23_CommittedRootNotLocated ==
    \E c \in ContractIDs :
        /\ \A s \in Sessions : sess[s].pc = "idle"
        /\ Len(contracts[c].roots) = 2
        /\ ~Located(contracts[c].roots[1])
        /\ Located(contracts[c].roots[2])

\* the sectors an Update at offset 0 makes of the sectors renters append
UpdatedSectors == {Patch(d, 0, u) : d \in SectorData, u \in UpdateData}

\* C24: when a contract's committed root is the Merkle root of a sector with
\* an Update's data copied in, the sector store holds that modified sector
\* under that root
C24_UpdatedSectorStored ==
    \A c \in ContractIDs : \A i \in 1..Len(contracts[c].roots) :
        \A sector \in UpdatedSectors :
            contracts[c].roots[i] = SectorRoot(sector)
               => /\ SectorRoot(sector) \in DOMAIN store
                  /\ store[SectorRoot(sector)].data = sector

\* a Write with an Update of sector d1 has committed and returned: the contract
\* commits to the root of the modified sector, and the store still holds the
\* old sector under the old root and nothing under the new one
C24_UpdateKeptOldSector ==
    \E c \in ContractIDs, u \in UpdateData :
        /\ \A s \in Sessions : sess[s].pc = "idle"
        /\ contracts[c].roots = <<SectorRoot(Patch("d1", 0, u))>>
        /\ SectorRoot(Patch("d1", 0, u)) \notin DOMAIN store
        /\ SectorRoot("d1") \in DOMAIN store
        /\ store[SectorRoot("d1")].data = "d1"

\* this step is the successful Commit of a Write by session s whose actions
\* are the Append of one sector: it staged the contract's roots and one more
AppendCommitted(s) ==
    /\ sess[s].pc = "wCommit"
    /\ CommitSucceeds(s)
    /\ Len(sess[s].rpc.added) = 1
    /\ sess[s].rpc.releases = sess[s].rpc.added
    /\ sess[s].rpc.roots = contracts[Held(s)].roots \o sess[s].rpc.added

ParseCurrency(str) ==
    IF \E n \in 0..9 : ToString(n) = str
    THEN CHOOSE n \in 0..9 : ToString(n) = str
    ELSE 0

\* the settings a renter decodes from the members of a JSON object: a field
\* takes the value of the member with its name, and is zero without one
Unmarshal(js) ==
    [ f \in DOMAIN JSONName |->
        IF \E m \in js : m.name = JSONName[f]
        THEN ParseCurrency((CHOOSE m \in js : m.name = JSONName[f]).value)
        ELSE 0 ]

C27_ErrorsAreTheMostRecent ==
    LET errors == volume.stats.Errors
    IN  /\ Len(errors) <= MaxErrors
        /\ Len(errors) = IF volume.clock < MaxErrors THEN volume.clock ELSE MaxErrors
        /\ \A i \in 1..Len(errors) : errors[i] = volume.clock - Len(errors) + i

\* more than MaxErrors errors occurred, failed reads and writes among them, and
\* the list starts at the error that came MaxErrors - 1 before the last
C27_OldestDropped ==
    /\ volume.clock > MaxErrors
    /\ volume.stats.FailedReads > 0 /\ volume.stats.FailedWrites > 0
    /\ Len(volume.stats.Errors) = MaxErrors
    /\ volume.stats.Errors[1] = volume.clock - MaxErrors + 1

\* this step is the file write of a WriteSector call
FileWrite == calls["write"].pc = "checked" /\ calls'["write"].pc = "io"

\* C28: no WriteSector performs its file write while a Resize of the volume is
\* in progress
C28_ResizeExcludesWrites ==
    [][FileWrite => volume.resizing.pc = "none"]_vars

\* during a Resize that shrinks the file a WriteSector wrote a slot beyond the
\* length the file had when the Resize began
C28_WriteDuringShrink ==
    /\ volume.resizing.pc = "running"
    /\ volume.resizing.new < volume.resizing.old
    /\ volume.size > volume.resizing.old
    /\ calls["write"].pc = "io" /\ calls["write"].ret = "ok"
    /\ ~volume.busy

\* this step is call op passing its test of v.data
Served(op) == calls[op].pc = "idle" /\ calls'[op].pc = "checked"

\* C29: once a ReadSector or WriteSector has failed with an I/O error the volume
\* is marked unavailable and no ReadSector or WriteSector is served by it
C29_FailedVolumeStopsServing ==
    [][(volume.stats.FailedReads + volume.stats.FailedWrites > 0)
         => /\ volume.stats.Status = "unavailable"
            /\ ~Served("read") /\ ~Served("write")]_vars

\* after a failed read the volume is open with its status unchanged, and the
\* next ReadSector has passed the test of v.data
C29_ServedAfterFailure ==
    /\ volume.stats.FailedReads = 1
    /\ volume.data = "open" /\ volume.stats.Status = ""
    /\ calls["read"].pc = "checked"

\* C30: a WriteSector that finds no backing file open, at its test of v.data or
\* at its file write after a Close, returns ErrVolumeNotAvailable, leaves the
\* statistics alone and does not crash
C30_WriteUnopenedFails ==
    [][( /\ calls["write"].pc \in {"idle", "checked"}
         /\ calls'["write"] # calls["write"]
         /\ volume.data = "nil" )
         => /\ calls'["write"].ret = "ErrVolumeNotAvailable"
            /\ calls'["write"].pc = "idle"
            /\ volume'.stats = volume.stats
            /\ ~volume'.crashed]_vars

\* a WriteSector on a volume that Close had closed panicked
C30_WritePanicked ==
    /\ volume.crashed
    /\ calls["write"].ret = "panic"
    /\ volume.data = "nil" /\ volume.stats.Status = "unavailable"

----------------------------------------------------------------------------
\* C31: the duration that rpcLock hands to the contract manager is never
\* negative, whatever TimeoutMillis the renter sent
C31_LockDurationNonNegative ==
    last.rpc = "Lock" /\ last.managerLock => last.duration >= 0

\* a Lock request with TimeoutMillis 2^64 - 1 reached the contract manager
C31_NegativeDurationHanded ==
    /\ last.rpc = "Lock"
    /\ last.managerLock
    /\ last.duration = Duration(-1)
    /\ last.duration < 0

\* C32: a Lock that carries a challenge signature accepted by an earlier Lock
\* of the session, sent after the session unlocked, is answered with the
\* invalid-signature error
C32_ReplayedSignatureInvalid ==
    [][\A s \in Sessions :
          /\ last'.rpc = "Lock" /\ last'.s = s /\ last'.replayed
          /\ sess[s].alive /\ sess[s].contract.rev.parentID = NoContract
          /\ sess'[s].alive
          => last'.resp = "InvalidRenterSignature"]_vars

\* Lock, Unlock, and a second Lock with the first signature: the manager
\* refuses the lease before the signature is looked at
C32_ReplayRefusedByLease ==
    /\ last.rpc = "Lock" /\ last.replayed /\ last.managerLock
    /\ last.resp = "failed to lock contract"
    /\ sess[last.s].alive
    /\ sess[last.s].challenge = 1
    /\ sess[last.s].contract.rev.parentID = NoContract
    /\ lease["c1"] = last.s

----------------------------------------------------------------------------
RECURSIVE ProofRoot(_, _, _, _, _, _)
\* the renter's side of a range proof: the root of the subtree covering
\* [lo, lo + width), rebuilt from the leaves of [start, end) and the hashes of
\* the proof, with the leaves and hashes not yet used
ProofRoot(leaves, proof, lo, width, start, end) ==
    IF lo + width <= start \/ end <= lo
    THEN IF proof = <<>>
         THEN [ok |-> FALSE, hash |-> ZeroHash, leaves |-> leaves, proof |-> proof]
         ELSE [ok |-> TRUE, hash |-> Head(proof), leaves |-> leaves, proof |-> Tail(proof)]
    ELSE IF width = 1
    THEN IF leaves = <<>>
         THEN [ok |-> FALSE, hash |-> ZeroHash, leaves |-> leaves, proof |-> proof]
         ELSE [ok |-> TRUE, hash |-> Head(leaves), leaves |-> Tail(leaves), proof |-> proof]
    ELSE LET l == ProofRoot(leaves, proof, lo, width \div 2, start, end)
             r == ProofRoot(l.leaves, l.proof, lo + width \div 2, width \div 2, start, end)
         IN  [ok |-> l.ok /\ r.ok, hash |-> ToString(<<"node", l.hash, r.hash>>),
              leaves |-> r.leaves, proof |-> r.proof]

\* the roots of [start, end) and the proof verify against the Merkle root of a
\* list of n sector roots
VerifyRangeProof(leaves, proof, start, end, n, root) ==
    /\ n > 0
    /\ LET v == ProofRoot(leaves, proof, 0, NextPow2From(1, n), start, end)
       IN  v.ok /\ v.leaves = <<>> /\ v.proof = <<>> /\ v.hash = root

\* C33: the response of a SectorRoots RPC for a range within the contract's
\* sector list carries the range proof of [RootOffset, RootOffset + NumRoots)
\* over the contract's whole list, and its roots and proof verify against the
\* file Merkle root of the revision
C33_RangeProofOverWholeList ==
    last.rpc = "SectorRoots" =>
        LET c == Held(last.s)
            all == contracts[c].roots
            end == last.offset + Len(last.roots)
        IN  (last.roots # <<>> /\ end <= Len(all)) =>
               /\ last.resp = "SectorRoots"
               /\ last.proof = RangeProof(all, 0, NextPow2From(1, Len(all)), last.offset, end)
               /\ VerifyRangeProof(last.roots, last.proof, last.offset, end, Len(all),
                                   sess[last.s].contract.rev.merkle)

\* the first of two sector roots was returned with an empty proof, which does
\* not lead to the file Merkle root of the two
C33_FirstRootWithoutProof ==
    /\ last.rpc = "SectorRoots" /\ last.resp = "SectorRoots"
    /\ last.offset = 0 /\ Len(last.roots) = 1 /\ last.proof = <<>>
    /\ Len(contracts[Held(last.s)].roots) = 2
    /\ sess[last.s].contract.rev.merkle = MerkleRoot(contracts[Held(last.s)].roots)
    /\ ~VerifyRangeProof(last.roots, last.proof, 0, 1, 2, sess[last.s].contract.rev.merkle)

----------------------------------------------------------------------------
\* C34: when Resize(oldSectors, newSectors) has returned, the backing file
\* holds newSectors sectors if it succeeded and oldSectors sectors if it failed
C34_ResizeLeavesACapacity ==
    [][(volume.resizing.pc = "running" /\ volume'.resizing.pc = "none") =>
          volume'.size = IF volume'.resizing.ret = "ok" THEN volume'.resizing.new
                         ELSE volume'.resizing.old]_vars

\* a growth from no sector to two failed at its second slot and left a file of
\* one sector
C34_PartialGrowthLeft ==
    /\ volume.resizing = ResizeReturned([old |-> 0, new |-> 2], "err")
    /\ volume.data # "nil"
    /\ volume.size = 1
    /\ calls["write"] = NoCall
    /\ volume.stats.SuccessfulWrites = 0 /\ volume.stats.FailedWrites = 0

----------------------------------------------------------------------------
\* C39: a ReadSector that passed its test of v.data performs its read while the
\* backing file is open, and never dereferences a v.data that Close has set to
\* nil
C39_ReadOnOpenFile ==
    [][(calls["read"].pc = "checked" /\ calls'["read"].pc = "io") =>
          /\ volume.data # "nil"
          /\ calls'["read"].ret # "panic"]_vars

\* Close ran between the test of v.data and ReadAt, and the read dereferenced
\* the nil v.data
C39_ReadAfterClose ==
    /\ calls["read"].pc = "io" /\ calls["read"].stale
    /\ calls["read"].ret = "panic"
    /\ volume.crashed
    /\ volume.data = "nil" /\ volume.stats.Status = "unavailable"
    /\ volume.stats.SuccessfulReads = 0 /\ volume.stats.FailedReads = 0

----------------------------------------------------------------------------
\* the outputs spent by the tracked transaction sets
Tracked(w) == UNION {w.txnsets[t] : t \in TxnSetIDs}

\* C35: a transaction-pool diff received while tpool holds exactly the outputs
\* spent by the tracked transaction sets leaves tpool holding exactly the
\* outputs spent by the sets tracked afterwards
C35_PoolIsWhatTrackedSetsSpend ==
    [][(wallet.tpool = Tracked(wallet) /\ wallet'.txnsets # wallet.txnsets) =>
          wallet'.tpool = Tracked(wallet')]_vars

\* one tracked transaction set spends an unspent output that is not in tpool
C35_SpentByTrackedSetNotInPool ==
    \E x \in OutputIDs, t \in TxnSetIDs :
        /\ x \in Range(IDs(wallet.utxos))
        /\ x \in wallet.txnsets[t]
        /\ \A u \in TxnSetIDs \ {t} : wallet.txnsets[u] = {}
        /\ x \notin wallet.tpool
        /\ wallet.tpool = {}

----------------------------------------------------------------------------
\* C36: the outputs that a FundTransaction call locked, that no consensus
\* change has removed since, stay locked until that call's own release runs,
\* whatever other calls' releases run meanwhile
C36_ReleaseUnlocksOwnOnly ==
    \A g \in Funders : Unreleased(g) => funds[g].held \subseteq wallet.locked

\* the first call's release has run and unlocked an output that the second,
\* unreleased call holds
C36_UnlockedByOtherRelease ==
    \E f \in Funders, g \in Funders, id \in OutputIDs :
        /\ f # g /\ funds[f].status = "none" /\ Unreleased(g)
        /\ id \in funds[g].held
        /\ id \in Range(IDs(wallet.utxos))
        /\ id \notin wallet.locked /\ id \notin wallet.tpool

----------------------------------------------------------------------------
\* C37: every FundTransaction call that returned without error returned a
\* release that can be called, and the deferred release of rpcFormContract
\* never panics
C37_ReleaseCallable ==
    \A f \in Funders :
        /\ Unreleased(f) => funds[f].release
        /\ funds[f].status # "panic"

\* a formation with host collateral zero was broadcast and registered, and the
\* handler panicked in its deferred release
C37_ZeroCollateralPanicked ==
    \E f \in Funders :
        /\ funds[f].status = "panic" /\ funds[f].toSign = <<>>
        /\ form[f].broadcast /\ form[f].contract
        /\ ~form[f].alive

----------------------------------------------------------------------------
\* C38: a revision of a contract is staged only while a Write RPC of a live
\* session that holds the contract is between its ReviseContract and its
\* Commit
C38_StagedOnlyWithinRPC ==
    \A c \in ContractIDs :
        staged[c] => \E s \in Sessions :
                        /\ sess[s].alive /\ Held(s) = c
                        /\ sess[s].pc \in {"wSign", "wSync", "wCommit"}

\* no RPC is in progress, yet a revision of the contract is staged: the session
\* that holds the contract is alive and the contract is still revisable, so its
\* next Write gets as far as ReviseContract
C38_StagedAfterWriteReturned ==
    \E s \in Sessions, c \in ContractIDs :
        /\ Idle(s) /\ Held(s) = c /\ lease[c] = s
        /\ ContractRevisable(sess[s], height)
        /\ staged[c]
        /\ \A o \in Sessions : sess[o].pc = "idle"

----------------------------------------------------------------------------
\* C40: the cost that rpcSectorRoots computes for a request of one root or more
\* is never less than the cost of one root without a proof
C40_MoreRootsNeverCostLess ==
    (last.rpc = "SectorRoots" /\ last.count # 0) =>
        last.cost >= Settings.DownloadBandwidthPrice * (1 * HashSize)

\* a request for 2^64 - 1 roots from offset 1 on passed the validation of its
\* revision at a cost of zero
C40_WrappedRequestFree ==
    /\ last.rpc = "SectorRoots"
    /\ last.offset = 1 /\ last.count = -1
    /\ U64Add(last.offset, last.count) = 0
    /\ last.cost = 0
    /\ last.resp = "HostInternalError"

====
